---- MODULE Spec2Model ----
(***************************************************************************)
(* Incremental reconciliation and caching engine of the price comparator   *)
(* extension: the PerformanceCache classes (background service worker and  *)
(* content script) and the vendor reconciliation pipeline of the content   *)
(* script (navigation poll, reinitialize, mutation observers, debounce,    *)
(* chunked passes, highlightVendor).                                       *)
(***************************************************************************)
EXTENDS Integers, Sequences, FiniteSets, TLC

(***************************************************************************)
(* Bounds of the model                                                     *)
(***************************************************************************)
NumKeys == 3
NumVals == 2
MaxCap == 2
MaxTTL == 2
MaxSteps == 5

Keys == 1..NumKeys
Vals == 1..NumVals

\* JavaScript null: the result of a cache miss (data values are never 0)
Null == 0

VARIABLES
    impl,        \* which PerformanceCache class the instance is of
    inst,        \* the PerformanceCache instance (cache, maxSize, ttl, counters)
    now,         \* Date.now()
    steps,       \* how many calls and clock ticks have happened
    last,        \* the last call on the instance and what it returned
    named,       \* how many keys and how many values the calls have named so far
    lastSet,     \* history: per key, value and time of its last set
    usedAfter,   \* history: per key, the other keys set or hit after its last set
    useOrder,    \* history: the stored keys, least recently used first
    ins          \* history: the sets since the cache was empty

cacheVars == <<impl, inst, now, steps, last, named, lastSet, usedAfter, useOrder, ins>>

VARIABLES
    location,    \* window.location.href
    doc,         \* the restaurant links of the document, in document order
    dom,         \* per container, the classes and badges the extension added
    state,       \* the ExtensionState object
    timers,      \* pending timeouts: universalReinitTimer, init, debounce
    requests,    \* getVendorList messages whose reply has not arrived yet
    idleQueue,   \* pending requestIdleCallback callbacks (passes between slices)
    containerCache, \* the module-level memo of findBestContainer: <<link, container>>
    hist         \* history: epoch number, decorations applied, finished passes

reconVars ==
    <<location, doc, dom, state, timers, requests, idleQueue, containerCache, hist>>

VARIABLES
    clock,       \* Date.now(), in units of the timer resolution
    deb,         \* a debounced wrapper: its timeout handle and the host's timers
    thr,         \* a throttled wrapper: lastFunc, lastRan and the host's timers
    rlog         \* history: invocations and runs of the two wrapped functions

rateVars == <<clock, deb, thr, rlog>>

VARIABLES
    cmpIn,       \* the arguments of a processAndCompare call
    cmpOut       \* whether it has returned, and the comparisonResults

cmpVars == <<cmpIn, cmpOut>>

VARIABLES
    handler,     \* where the fetchPrices handler of the background script is
    request,     \* the message it handles
    attempt,     \* getVendorData: the loop variable
    apiResult,   \* what getVendorData returned
    vendorCache, \* the keys vendorDataCache holds
    lookup,      \* the two product lookups under Promise.all
    reply,       \* what sendResponse was called with
    flog         \* history of the current request: lookups made, outcomes, delays

fetchVars == <<handler, request, attempt, apiResult, vendorCache, lookup, reply, flog>>

VARIABLES
    popup,       \* the popup script: position, apiConnectionStatus, popupCache
    getList,     \* the getVendorList handler: position and its two lookups
    bgCaches,    \* whether apiStatsCache / vendorListCache hold their entry
    listReply,   \* what the getVendorList handler called sendResponse with
    llog         \* history: loadVendorStats calls made

listVars == <<popup, getList, bgCaches, listReply, llog>>

VARIABLES
    net,         \* one network-backed lookup: its phase, start, abort timer, result
    tclock       \* the time of the background script

toVars == <<net, tclock>>

VARIABLES
    rankIn,      \* the arguments of a performSmartSearch call
    rankOut      \* whether it has returned, and the ranked list

rankVars == <<rankIn, rankOut>>

VARIABLES
    comparisonData, \* state.comparisonData: its records, in Object.values order
    vendorList,     \* state.vendorList: the array, in its present order
    searchManager,  \* settings, pending search timer and results of the widget
    inputValue,     \* the text of the search input
    searchCache,    \* state.searchCache
    searchLog       \* history: what each key last showed, the last search, events

searchVars == <<comparisonData, vendorList, searchManager, inputValue, searchCache, searchLog>>

VARIABLES
    cards,       \* the outerHTML of the candidate containers of the page
    ratings,     \* state.ratingCache while ratings are extracted from them
    ratingUse    \* the last extraction: the candidate and the rating returned

ratingVars == <<cards, ratings, ratingUse>>

VARIABLES
    ancestors,     \* a link and its ancestors up to the root: <<link, parent, ..., body, html>>
    linkMemo,      \* containerCache for that link: <<>> or <<container>>
    bestContainer  \* the containers findBestContainer returned for the link, in order

treeVars == <<ancestors, linkMemo, bestContainer>>

VARIABLES
    menuPage,           \* the menu page shown: its url and the product cards in the document
    menuState,          \* state of the content script on menu pages: comparisonData, lastUrl, domCache, activeObservers
    processedProducts,  \* the module-level WeakMap of injectSnappFoodComparisons, as a set of cards
    cardMarks,          \* what the extension has put on each card: nothing, the unpaired class, the comparison text
    menuTimers,         \* the pending timeouts: universalReinitTimer, initSnappFoodMenu, debouncedProcessProducts
    menuQueue,           \* the slices queued with requestIdleCallback: the productCards each one captured
    menuRequests,       \* the fetchPrices requests without a reply yet
    menuHist            \* history: the resets so far (the epoch) and the navigations so far

menuVars == <<menuPage, menuState, processedProducts, cardMarks, menuTimers, menuQueue, menuRequests, menuHist>>

vars == <<cacheVars, reconVars, rateVars, cmpVars, fetchVars, listVars, toVars, rankVars, searchVars, ratingVars, treeVars, menuVars>>

\* what the handlers of one part of the program leave alone
notCache == <<reconVars, rateVars, cmpVars, fetchVars, listVars, toVars, rankVars, searchVars, ratingVars, treeVars, menuVars>>
notRecon == <<cacheVars, rateVars, cmpVars, fetchVars, listVars, toVars, rankVars, searchVars, ratingVars, treeVars, menuVars>>
notRate == <<cacheVars, reconVars, cmpVars, fetchVars, listVars, toVars, rankVars, searchVars, ratingVars, treeVars, menuVars>>
notCmp == <<cacheVars, reconVars, rateVars, fetchVars, listVars, toVars, rankVars, searchVars, ratingVars, treeVars, menuVars>>
notFetch == <<cacheVars, reconVars, rateVars, cmpVars, listVars, toVars, rankVars, searchVars, ratingVars, treeVars, menuVars>>
notList == <<cacheVars, reconVars, rateVars, cmpVars, fetchVars, toVars, rankVars, searchVars, ratingVars, treeVars, menuVars>>
notTo == <<cacheVars, reconVars, rateVars, cmpVars, fetchVars, listVars, rankVars, searchVars, ratingVars, treeVars, menuVars>>
notRank == <<cacheVars, reconVars, rateVars, cmpVars, fetchVars, listVars, toVars, searchVars, ratingVars, treeVars, menuVars>>
notSearch == <<cacheVars, reconVars, rateVars, cmpVars, fetchVars, listVars, toVars, rankVars, ratingVars, treeVars, menuVars>>
notRating == <<cacheVars, reconVars, rateVars, cmpVars, fetchVars, listVars, toVars, rankVars, searchVars, treeVars, menuVars>>
notTree == <<cacheVars, reconVars, rateVars, cmpVars, fetchVars, listVars, toVars, rankVars, searchVars, ratingVars, menuVars>>
notMenu == <<cacheVars, reconVars, rateVars, cmpVars, fetchVars, listVars, toVars, rankVars, searchVars, ratingVars, treeVars>>

(***************************************************************************)
(* Map helpers: a JavaScript Map is a sequence of entries in insertion     *)
(* order                                                                   *)
(***************************************************************************)
IndexOf(m, key) ==
    IF \E i \in 1..Len(m) : m[i].key = key
    THEN CHOOSE i \in 1..Len(m) : m[i].key = key
    ELSE 0

MapHas(m, key) == IndexOf(m, key) # 0

MapDelete(m, key) ==
    LET i == IndexOf(m, key)
    IN IF i = 0 THEN m
       ELSE SubSeq(m, 1, i - 1) \o SubSeq(m, i + 1, Len(m))

\* Map.prototype.set: an existing key keeps its position, a new key goes last
MapSet(m, item) ==
    LET i == IndexOf(m, item.key)
    IN IF i = 0 THEN Append(m, item)
       ELSE [m EXCEPT ![i] = item]

KeySet(m) == {m[i].key : i \in 1..Len(m)}

SeqRemove(s, x) ==
    LET F[i \in 0..Len(s)] ==
            IF i = 0 THEN <<>>
            ELSE IF s[i] = x THEN F[i - 1] ELSE Append(F[i - 1], s[i])
    IN F[Len(s)]

SeqRestrict(s, S) ==
    LET F[i \in 0..Len(s)] ==
            IF i = 0 THEN <<>>
            ELSE IF s[i] \in S THEN Append(F[i - 1], s[i]) ELSE F[i - 1]
    IN F[Len(s)]

(***************************************************************************)
(* PerformanceCache of the background service worker (TTL + LRU)           *)
(***************************************************************************)
BgNew(maxSize, ttlMs) ==
    [cache |-> <<>>, maxSize |-> maxSize, ttl |-> ttlMs,
     hitCount |-> 0, missCount |-> 0]

\* faulty variant: an entry is still served at its expiry time
BgLive_AtExpiry(item, t) == t <= item.expiry

BgLive(item, t) == t < item.expiry

BgGet(c, key, t) ==
    LET i == IndexOf(c.cache, key)
    IN IF i # 0 /\ BgLive(c.cache[i], t)
       THEN [obj |-> [c EXCEPT !.hitCount = @ + 1,
                               !.cache = Append(MapDelete(@, key), c.cache[i])],
             ret |-> c.cache[i].data]
       ELSE [obj |-> [c EXCEPT !.cache = MapDelete(@, key),
                               !.missCount = @ + 1],
             ret |-> Null]

\* faulty variant: the newest entry is evicted instead of the oldest
BgEvict_Newest(c, key) ==
    IF Len(c.cache) >= c.maxSize /\ ~MapHas(c.cache, key)
    THEN SubSeq(c.cache, 1, Len(c.cache) - 1)
    ELSE c.cache

BgEvict(c, key) ==
    IF Len(c.cache) >= c.maxSize /\ ~MapHas(c.cache, key)
    THEN Tail(c.cache)
    ELSE c.cache

BgSet(c, key, data, t) ==
    [c EXCEPT !.cache = MapSet(BgEvict(c, key),
                               [key |-> key, data |-> data, expiry |-> t + c.ttl])]

BgClear(c) == [c EXCEPT !.cache = <<>>, !.hitCount = 0, !.missCount = 0]

BgExpired(c, t) == {c.cache[i].key : i \in {j \in 1..Len(c.cache) : t >= c.cache[j].expiry}}

\* faulty variant: an entry is swept only after its expiry time has passed
BgCleanup_AfterExpiry(c, t) ==
    LET F[i \in 0..Len(c.cache)] ==
            IF i = 0 THEN <<>>
            ELSE IF t > c.cache[i].expiry THEN F[i - 1]
                 ELSE Append(F[i - 1], c.cache[i])
    IN [obj |-> [c EXCEPT !.cache = F[Len(c.cache)]],
        ret |-> Len(c.cache) - Len(F[Len(c.cache)])]

BgCleanup(c, t) ==
    LET F[i \in 0..Len(c.cache)] ==
            IF i = 0 THEN <<>>
            ELSE IF t >= c.cache[i].expiry THEN F[i - 1]
                 ELSE Append(F[i - 1], c.cache[i])
    IN [obj |-> [c EXCEPT !.cache = F[Len(c.cache)]],
        ret |-> Cardinality(BgExpired(c, t))]

\* (hitCount / total * 100).toFixed(1): the percentage in tenths, rounded
\* to the nearest
toFixed1(hitCount, total) == (2000 * hitCount + total) \div (2 * total)

\* the text `${hitRate}%`: a rate, given in tenths of a percent; the value a
\* report without a rate would hold instead is NoRate
RateText(tenths) == [numeric |-> TRUE, tenths |-> tenths]

NoRate == [numeric |-> FALSE, tenths |-> 0]

BgGetStats(c) ==
    LET total == c.hitCount + c.missCount
        hitRate == IF total > 0 THEN toFixed1(c.hitCount, total) ELSE 0
    IN [size |-> Len(c.cache), maxSize |-> c.maxSize, hitRate |-> RateText(hitRate),
        hits |-> c.hitCount, misses |-> c.missCount]

(***************************************************************************)
(* PerformanceCache of the content script (LRU, no TTL)                    *)
(***************************************************************************)
CsNew(maxSize) ==
    [cache |-> <<>>, maxSize |-> maxSize, hitCount |-> 0, missCount |-> 0]

CsGet(c, key) ==
    LET i == IndexOf(c.cache, key)
    IN IF i # 0
       THEN [obj |-> [c EXCEPT !.hitCount = @ + 1,
                               !.cache = Append(MapDelete(@, key), c.cache[i])],
             ret |-> c.cache[i].data]
       ELSE [obj |-> [c EXCEPT !.missCount = @ + 1],
             ret |-> Null]

\* faulty variant: a new key is added without making room
CsSet_NoEvict(c, key, value) ==
    [c EXCEPT !.cache = Append(MapDelete(c.cache, key), [key |-> key, data |-> value])]

CsSet(c, key, value) ==
    LET m == IF MapHas(c.cache, key) THEN MapDelete(c.cache, key)
             ELSE IF Len(c.cache) >= c.maxSize THEN Tail(c.cache)
             ELSE c.cache
    IN [c EXCEPT !.cache = Append(m, [key |-> key, data |-> value])]

CsClear(c) == [c EXCEPT !.cache = <<>>, !.hitCount = 0, !.missCount = 0]

CsGetStats(c) ==
    LET total == c.hitCount + c.missCount
        hitRate == IF total > 0 THEN toFixed1(c.hitCount, total) ELSE 0
    IN [size |-> Len(c.cache), hitRate |-> RateText(hitRate),
        hits |-> c.hitCount, misses |-> c.missCount]

(***************************************************************************)
(* Content script: configuration, page adapter and ExtensionState          *)
(***************************************************************************)
\* bounds of the reconciliation model
NumLinks == 2
MaxNav == 1
MaxPasses == 2

\* PERF_CONFIG.VENDOR_CHUNK_SIZE, scaled down from 25 so that a pass over
\* NumLinks candidates takes more than one slice
VENDOR_CHUNK_SIZE == 1
\* PERF_CONFIG.RATING_THRESHOLD (4.2), ratings are in tenths
RATING_THRESHOLD == 42
\* rating extraction is skipped once more than 100 codes were seen in a pass
RATING_EXTRACT_LIMIT == 100
CACHE_SIZE_RATINGS == 500
CACHE_SIZE_SEARCH == 200

Links == 1..NumLinks

\* the pages the tab can show, and detectPageType of each
Urls == {"homepage", "service", "other"}

detectPageType(url) ==
    IF url = "homepage" THEN "snappfood-homepage"
    ELSE IF url = "service" THEN "snappfood-service"
    ELSE "unknown"

\* extractVendorCodeFromUrl(link.href, 'snappfood'): every third link is of
\* vendor 2, the others are of vendor 1
extractVendorCodeFromUrl(link) == IF link % 3 = 0 THEN 2 ELSE 1

\* the vendors of the list the background script replies with
ServerVendors == {1}

\* each link lies in a card of its own, which is its container
findBestContainer(link) == link

\* what the document shows in a container: a rating of 4.5, or no rating
ContRating(c) == IF c % 2 = 0 THEN Null ELSE 45

\* the first 100 characters of the container's outerHTML
ContKey(c) == c

\* the fields of ExtensionState that the vendor list pages use; the counters
\* of performanceMetrics, domCache and the product fields of the menu pages
\* are left out
ExtensionStateNew(url) ==
    [lastUrl |-> url,
     currentPageType |-> "null",
     urlChangeCount |-> 0,
     comparisonData |-> {},
     vendorInfo |-> {},
     pairedVendors |-> {},
     processedVendors |-> {},
     processedElements |-> {},
     vendorList |-> {},
     activeObservers |-> 0,
     ratingCache |-> CsNew(CACHE_SIZE_RATINGS),
     searchCache |-> CsNew(CACHE_SIZE_SEARCH)]

\* faulty variant: reset forgets to renew the decoration keys
ExtensionStateReset_KeepKeys(s) ==
    [s EXCEPT !.comparisonData = {},
              !.vendorInfo = {},
              !.pairedVendors = {},
              !.vendorList = {},
              !.ratingCache = CsClear(@),
              !.searchCache = CsClear(@),
              !.processedElements = {}]

ExtensionStateReset(s) ==
    [s EXCEPT !.comparisonData = {},
              !.vendorInfo = {},
              !.pairedVendors = {},
              !.processedVendors = {},
              !.vendorList = {},
              !.ratingCache = CsClear(@),
              !.searchCache = CsClear(@),
              !.processedElements = {}]

\* what the extension has put into each container: the border classes of
\* the card box and the badges by the className of their template
CleanDom == [c \in Links |-> [classes |-> {}, paired |-> 0, highRating |-> 0, premium |-> 0]]

\* cleanupAll, document part: the selector list names the paired badge
\* ('.sp-vs-tp-paired-vendor-badge') and all border classes; the badges of
\* the highRating and premium templates are in no selector of the list
cleanupAllDom(d) ==
    [c \in Links |-> [d[c] EXCEPT !.classes = {}, !.paired = 0]]

\* reinitialize: an init function is scheduled for a known page type only
\* (faulty variant: it is never scheduled)
ScheduleInit_Never(pending, pageType) == pending

ScheduleInit(pending, pageType) ==
    IF pageType \in {"snappfood-homepage", "snappfood-service"}
    THEN pending + 1 ELSE pending

(***************************************************************************)
(* debounce: a call cancels the pending timeout and sets a new one         *)
(***************************************************************************)
\* number of pending timeouts after a call of the debounced function
debounce(pending) == 1

(***************************************************************************)
(* highlightVendor and the chunked pass of processVendorElements           *)
(***************************************************************************)
UniqueId(vendorCode, rating, isPaired, isHighRated) ==
    <<vendorCode, rating, isPaired, isHighRated>>

extractRatingFromElement(cache, c) ==
    LET g == CsGet(cache, ContKey(c))
    IN IF g.ret # Null
       THEN [cache |-> g.obj, rating |-> g.ret]
       ELSE [cache |-> CsSet(g.obj, ContKey(c), ContRating(c)),
             rating |-> ContRating(c)]

\* the three branches of highlightVendor: border class of the card box and
\* the badges appended (premium: crown badge and paired badge)
Decorate(d, isPaired, isHighRated) ==
    IF isPaired /\ isHighRated
    THEN [d EXCEPT !.classes = @ \cup {"sp-vs-tp-vendor-premium"},
                   !.premium = @ + 1, !.paired = @ + 1]
    ELSE IF isHighRated
    THEN [d EXCEPT !.classes = @ \cup {"sp-vs-tp-vendor-high-rating"},
                   !.highRating = @ + 1]
    ELSE [d EXCEPT !.classes = @ \cup {"sp-vs-tp-vendor-paired"},
                   !.paired = @ + 1]

AlreadyHighlighted(st, uid) == uid \in st.processedVendors

\* a is the running result of a slice: state, dom, the codes of the pass,
\* the links visited, the decorations applied and whether a node matching
\* the observer's selectors ('[class*="vendor"]': the paired badge) was added
highlightVendor(a, c, vendorCode, rating, isPaired, isHighRated) ==
    LET uid == UniqueId(vendorCode, rating, isPaired, isHighRated)
    IN IF AlreadyHighlighted(a.state, uid) THEN a
       ELSE [a EXCEPT !.dom[c] = Decorate(@, isPaired, isHighRated),
                      !.state.processedVendors = @ \cup {uid},
                      !.applied = Append(@, [uid |-> uid, cont |-> c]),
                      !.added = @ \/ isPaired]

\* faulty variant: the processed-element marker is not consulted
ElementProcessed_Never(st, c) == FALSE

ElementProcessed(st, c) == c \in st.processedElements

\* findBestContainer with its memo: a memoized link is answered from
\* containerCache, any other link is resolved and memoized
findBestContainerCached(cc, link) ==
    IF \E e \in cc : e[1] = link
    THEN [cache |-> cc, container |-> (CHOOSE e \in cc : e[1] = link)[2]]
    ELSE [cache |-> cc \cup {<<link, findBestContainer(link)>>},
          container |-> findBestContainer(link)]

\* the body of the for loop of processChunk for one link
VisitLink(a, link) ==
    LET vendorCode == extractVendorCodeFromUrl(link)
        found == findBestContainerCached(a.containerCache, link)
        container == found.container
        v == [a EXCEPT !.visited = Append(@, link)]
        w == [v EXCEPT !.containerCache = found.cache]
    IN IF vendorCode = Null \/ vendorCode \in a.codes THEN v
       ELSE IF ElementProcessed(a.state, container)
       THEN [w EXCEPT !.codes = @ \cup {vendorCode}]
       ELSE LET codes == a.codes \cup {vendorCode}
                r == IF Cardinality(codes) <= RATING_EXTRACT_LIMIT
                     THEN extractRatingFromElement(a.state.ratingCache, container)
                     ELSE [cache |-> a.state.ratingCache, rating |-> Null]
                isPaired == vendorCode \in a.state.pairedVendors
                isHighRated == r.rating # Null /\ r.rating >= RATING_THRESHOLD
                a1 == [w EXCEPT !.codes = codes,
                                !.state.processedElements = @ \cup {container},
                                !.state.ratingCache = r.cache]
            IN IF isPaired \/ isHighRated
               THEN highlightVendor(a1, container, vendorCode, r.rating, isPaired, isHighRated)
               ELSE a1

Min(x, y) == IF x <= y THEN x ELSE y

\* faulty variant: the whole list is processed in one slice
EndIndex_All(startIndex, chunkSize, n) == n

EndIndex(startIndex, chunkSize, n) == Min(startIndex + chunkSize, n)

\* one slice: links[startIndex .. endIndex - 1] (JavaScript indices)
processChunk(a0, links, startIndex, endIndex) ==
    LET F[i \in startIndex..endIndex] ==
            IF i = startIndex THEN a0 ELSE VisitLink(F[i - 1], links[i])
    IN F[endIndex]

NewPass(links, epoch) ==
    [links |-> links, start |-> 0, codes |-> {},
     visited |-> <<>>, slices |-> <<>>, epoch |-> epoch]

\* processVendorElements: no links, no pass; else the first slice is queued
processVendorElements(queue, links, epoch) ==
    IF Len(links) = 0 THEN queue ELSE Append(queue, NewPass(links, epoch))

(***************************************************************************)
(* Content script: state after initialize() and the handlers               *)
(***************************************************************************)
NoPass == [links |-> <<>>, visited |-> <<>>, slices |-> <<>>, epoch |-> 0]

\* bookkeeping of the run: the epoch, the navigations and the passes
\* started so far, the decorations applied in the epoch in order, the snapshots of the passes
\* that ran from start to end in the epoch, and the pass that ended last
HistNew ==
    [epoch |-> 1, navs |-> 0, passes |-> 0, applied |-> <<>>, handled |-> {}, done |-> NoPass]

\* the content script is started on a vendor list page
ContentInit ==
    /\ location = "service"
    /\ doc = <<>>
    /\ dom = CleanDom
    /\ state = [ExtensionStateNew(location) EXCEPT
                    !.currentPageType = detectPageType(location)]
    /\ timers = [reinit |-> FALSE,
                 init |-> ScheduleInit(0, detectPageType(location)),
                 debounce |-> 0]
    /\ requests = 0
    /\ idleQueue = <<>>
    /\ containerCache = {}
    /\ hist = HistNew

\* the state of the content script while only a cache instance is exercised
ReconIdle ==
    /\ location = "other"
    /\ doc = <<>>
    /\ dom = CleanDom
    /\ state = ExtensionStateNew("other")
    /\ timers = [reinit |-> FALSE, init |-> 0, debounce |-> 0]
    /\ requests = 0
    /\ idleQueue = <<>>
    /\ containerCache = {}
    /\ hist = HistNew

InsertAt(s, i, x) == SubSeq(s, 1, i) \o <<x>> \o SubSeq(s, i + 1, Len(s))

SeqSet(s) == {s[i] : i \in 1..Len(s)}

\* the page adds a restaurant link (with its card) to the document, the
\* cards in the order of their numbers and each at any place of the list;
\* every active observer sees a relevant addition and calls
\* debouncedProcessVendors
PageAddLink(link, i) ==
    /\ link = Len(doc) + 1
    /\ i \in 0..Len(doc)
    /\ doc' = InsertAt(doc, i, link)
    /\ timers' = IF state.activeObservers > 0
                 THEN [timers EXCEPT !.debounce = debounce(@)]
                 ELSE timers
    /\ UNCHANGED <<location, dom, state, requests, idleQueue, containerCache, hist>>
    /\ UNCHANGED notRecon

\* client-side navigation of the page
Navigate(url) ==
    /\ hist.navs < MaxNav
    /\ url # location
    /\ location' = url
    /\ hist' = [hist EXCEPT !.navs = @ + 1]
    /\ UNCHANGED <<doc, dom, state, timers, requests, idleQueue, containerCache>>
    /\ UNCHANGED notRecon

\* the body of throttledNavigationCheck when the location has changed
NavigationCheck ==
    /\ location # state.lastUrl
    /\ state' = [state EXCEPT !.urlChangeCount = @ + 1, !.lastUrl = location]
    /\ timers' = [timers EXCEPT !.reinit = TRUE]
    /\ UNCHANGED <<location, doc, dom, requests, idleQueue, containerCache, hist>>
    /\ UNCHANGED notRecon

\* universalReinitTimer fires: reinitialize, with cleanupAll and state.reset
Reinitialize ==
    /\ timers.reinit
    /\ LET newPageType == detectPageType(location)
       IN /\ dom' = cleanupAllDom(dom)
          /\ state' = [ExtensionStateReset(state) EXCEPT !.currentPageType = newPageType]
          /\ timers' = [timers EXCEPT !.reinit = FALSE,
                                      !.init = ScheduleInit(@, newPageType)]
    /\ hist' = [hist EXCEPT !.epoch = @ + 1, !.applied = <<>>, !.handled = {}]
    /\ UNCHANGED <<location, doc, requests, idleQueue, containerCache>>
    /\ UNCHANGED notRecon

\* the init timeout fires: initVendorHighlighting sends getVendorList
InitVendorHighlighting ==
    /\ timers.init > 0
    /\ timers' = [timers EXCEPT !.init = @ - 1]
    /\ requests' = requests + 1
    /\ UNCHANGED <<location, doc, dom, state, idleQueue, containerCache, hist>>
    /\ UNCHANGED notRecon

\* the reply to getVendorList arrives: the callback of initVendorHighlighting
VendorListReply(success) ==
    /\ requests > 0
    /\ requests' = requests - 1
    /\ IF success
       THEN /\ hist.passes < MaxPasses
            /\ state' = [state EXCEPT !.vendorList = ServerVendors,
                                      !.pairedVendors = @ \cup ServerVendors,
                                      !.activeObservers = @ + 1]
            /\ idleQueue' = processVendorElements(idleQueue, doc, hist.epoch)
            /\ hist' = [hist EXCEPT !.passes = @ + Len(idleQueue') - Len(idleQueue)]
       ELSE UNCHANGED <<state, idleQueue, hist>>
    /\ UNCHANGED <<location, doc, dom, timers, containerCache>>
    /\ UNCHANGED notRecon

\* the debounce timeout fires: later() runs processVendorElements
DebounceFire ==
    /\ timers.debounce > 0
    /\ hist.passes < MaxPasses
    /\ timers' = [timers EXCEPT !.debounce = @ - 1]
    /\ idleQueue' = processVendorElements(idleQueue, doc, hist.epoch)
    /\ hist' = [hist EXCEPT !.passes = @ + Len(idleQueue') - Len(idleQueue)]
    /\ UNCHANGED <<location, doc, dom, state, requests, containerCache>>
    /\ UNCHANGED notRecon

\* the host is idle: the oldest requestIdleCallback callback runs one slice
RunIdleCallback ==
    /\ idleQueue # <<>>
    /\ LET p == Head(idleQueue)
           endIndex == EndIndex(p.start, VENDOR_CHUNK_SIZE, Len(p.links))
           a == processChunk([state |-> state, dom |-> dom, codes |-> p.codes,
                              containerCache |-> containerCache,
                              applied |-> <<>>, added |-> FALSE, visited |-> <<>>],
                             p.links, p.start, endIndex)
           q == [p EXCEPT !.start = endIndex,
                          !.codes = a.codes,
                          !.visited = @ \o a.visited,
                          !.slices = Append(@, Len(a.visited))]
       IN /\ state' = a.state
          /\ dom' = a.dom
          /\ containerCache' = a.containerCache
          /\ idleQueue' = IF endIndex < Len(p.links)
                          THEN Append(Tail(idleQueue), q)
                          ELSE Tail(idleQueue)
          /\ timers' = IF a.added /\ state.activeObservers > 0
                       THEN [timers EXCEPT !.debounce = debounce(@)]
                       ELSE timers
          /\ hist' = [hist EXCEPT
                         !.applied = @ \o a.applied,
                         !.handled = IF endIndex = Len(p.links) /\ p.epoch = hist.epoch
                                     THEN @ \cup {p.links} ELSE @,
                         !.done = IF endIndex = Len(p.links)
                                  THEN [links |-> q.links, visited |-> q.visited,
                                        slices |-> q.slices, epoch |-> q.epoch]
                                  ELSE @]
    /\ UNCHANGED <<location, doc, requests>>
    /\ UNCHANGED notRecon

ReconNext ==
    \/ \E l \in Links, i \in 0..NumLinks : PageAddLink(l, i)
    \/ \E u \in Urls : Navigate(u)
    \/ NavigationCheck
    \/ Reinitialize
    \/ InitVendorHighlighting
    \/ \E ok \in BOOLEAN : VendorListReply(ok)
    \/ DebounceFire
    \/ RunIdleCallback

(***************************************************************************)
(* debounce and throttle under arbitrary timing of invocations             *)
(***************************************************************************)
\* bounds of the rate limiter model
MaxClock == 6
DebounceWait == 2
ThrottleLimit == 2
NumArgs == 2

Args == 1..NumArgs

\* a timer of the host: due time and the arguments its closure captured
Timer(due, args) == [due |-> due, args |-> args]

\* clearTimeout(handle): the timer of the handle, if still pending, is gone
\* (faulty variant: the timer stays)
clearTimeout_Noop(timerSet, handle) == timerSet

clearTimeout(timerSet, handle) == timerSet \ {handle}

\* setTimeout(f, delay): a delay below zero counts as zero
setTimeout(timerSet, args, delay) ==
    timerSet \cup {Timer(clock + (IF delay < 0 THEN 0 ELSE delay), args)}

NoTimer == Timer(0, 0)

DebounceNew == [timeout |-> NoTimer, timers |-> {}]

\* lastRan = 0 stands for undefined (Date.now() is never 0)
ThrottleNew == [lastFunc |-> NoTimer, lastRan |-> 0, timers |-> {}]

NoInvocation == [t |-> 0, args |-> 0, ran |-> 0]

RlogNew ==
    [dlast |-> NoInvocation, druns |-> <<>>,
     tlast |-> NoInvocation, truns |-> <<>>]

RateInit ==
    /\ clock = 1
    /\ deb = DebounceNew
    /\ thr = ThrottleNew
    /\ rlog = RlogNew

\* the wrappers while another part of the program is exercised
RateIdle == RateInit

\* executedFunction(...args) of debounce(func, DebounceWait)
DebounceCall(args) ==
    /\ clock + DebounceWait <= MaxClock
    /\ LET cleared == clearTimeout(deb.timers, deb.timeout)
           handle == Timer(clock + DebounceWait, args)
       IN deb' = [timeout |-> handle,
                  timers |-> setTimeout(cleared, args, DebounceWait)]
    /\ rlog' = [rlog EXCEPT !.dlast = [t |-> clock, args |-> args, ran |-> 0]]
    /\ UNCHANGED <<clock, thr>>
    /\ UNCHANGED notRate

\* a timeout of the debounced wrapper fires: later()
DebounceLater ==
    /\ \E tm \in deb.timers :
          /\ tm.due <= clock
          /\ deb' = [deb EXCEPT !.timers = clearTimeout(@ \ {tm}, deb.timeout)]
          /\ rlog' = [rlog EXCEPT
                         !.druns = Append(@, [t |-> clock, args |-> tm.args]),
                         !.dlast.ran = @ + 1]
    /\ UNCHANGED <<clock, thr>>
    /\ UNCHANGED notRate

\* the first branch of the throttled wrapper is taken while lastRan is unset
\* (faulty variant: it is always taken)
ThrottleFirst_Always(lastRan) == TRUE

ThrottleFirst(lastRan) == lastRan = 0

\* the delay of the trailing timeout (faulty variant: the whole limit)
ThrottleDelay_Whole(limit, t, lastRan) == limit

ThrottleDelay(limit, t, lastRan) == limit - (t - lastRan)

\* the wrapper returned by throttle(func, ThrottleLimit) is called
ThrottleCall(args) ==
    /\ clock + ThrottleLimit <= MaxClock
    /\ IF ThrottleFirst(thr.lastRan)
       THEN /\ thr' = [thr EXCEPT !.lastRan = clock]
            /\ rlog' = [rlog EXCEPT
                           !.truns = Append(@, [t |-> clock, args |-> args]),
                           !.tlast = [t |-> clock, args |-> args, ran |-> 1]]
       ELSE /\ LET cleared == clearTimeout(thr.timers, thr.lastFunc)
                   delay == ThrottleDelay(ThrottleLimit, clock, thr.lastRan)
                   handle == Timer(clock + (IF delay < 0 THEN 0 ELSE delay), args)
               IN thr' = [thr EXCEPT !.lastFunc = handle,
                                     !.timers = setTimeout(cleared, args, delay)]
            /\ rlog' = [rlog EXCEPT !.tlast = [t |-> clock, args |-> args, ran |-> 0]]
    /\ UNCHANGED <<clock, deb>>
    /\ UNCHANGED notRate

\* the trailing timeout of the throttled wrapper fires
ThrottleTimeout ==
    /\ \E tm \in thr.timers :
          /\ tm.due <= clock
          /\ IF clock - thr.lastRan >= ThrottleLimit
             THEN /\ thr' = [thr EXCEPT !.timers = @ \ {tm}, !.lastRan = clock]
                  /\ rlog' = [rlog EXCEPT
                                 !.truns = Append(@, [t |-> clock, args |-> tm.args]),
                                 !.tlast.ran = @ + 1]
             ELSE /\ thr' = [thr EXCEPT !.timers = @ \ {tm}]
                  /\ UNCHANGED rlog
    /\ UNCHANGED <<clock, deb>>
    /\ UNCHANGED notRate

\* time passes; a timeout that is due fires before the clock moves on
ClockTick ==
    /\ clock < MaxClock
    /\ \A tm \in deb.timers \cup thr.timers : tm.due > clock
    /\ clock' = clock + 1
    /\ UNCHANGED <<deb, thr, rlog>>
    /\ UNCHANGED notRate

RateNext ==
    \/ \E a \in Args : DebounceCall(a)
    \/ DebounceLater
    \/ \E a \in Args : ThrottleCall(a)
    \/ ThrottleTimeout
    \/ ClockTick

(***************************************************************************)
(* processAndCompare of the background script                              *)
(***************************************************************************)
\* bound of the comparison model: product ids are 0..MaxId
MaxId == 1

Ids == 0..MaxId

\* final prices a product record can carry on either platform
\* (SnappFood: price - discount, which can be zero or negative)
SfPrices == {-1, 0, 3, 100}
TfPrices == {1, 80, 100}

\* String(n) of a non-negative integer, as a sequence of decimal digits:
\* the property key under which an object holds the entry of id n
RECURSIVE ToKey(_)
ToKey(n) == IF n < 10 THEN <<n>> ELSE Append(ToKey(n \div 10), n % 10)

\* parseInt of a string of decimal digits
parseInt(str) ==
    LET F[i \in 0..Len(str)] == IF i = 0 THEN 0 ELSE 10 * F[i - 1] + str[i]
    IN F[Len(str)]

\* JavaScript truthiness of a number
Truthy(n) == n # 0

\* the objects with keys among the ids in I and values in V
Objects(I, V) == UNION {[K -> V] : K \in SUBSET {ToKey(n) : n \in I}}

\* fetchSnappfoodData keeps a product only if its id is truthy;
\* fetchTapsifoodData keeps every productId
SfIds == {n \in Ids : Truthy(n)}

\* Math.round(x / y * 100) for x >= 0, y > 0: the nearest integer, a half
\* is rounded up (faulty variant: the fraction is cut off)
RoundPercent_Floor(x, y) == (100 * x) \div y

RoundPercent(x, y) == (200 * x + y) \div (2 * y)

Abs(x) == IF x < 0 THEN 0 - x ELSE x

\* the guard on the base price (faulty variant: zero passes)
PriceOk_NonNegative(price) == price >= 0

PriceOk(price) == price > 0

\* the isCheaper flag (faulty variant: set for equal prices too)
IsCheaper_OrEqual(priceDiff) == priceDiff >= 0

IsCheaper(priceDiff) == priceDiff > 0

\* the record of one pair; the division is performed for a positive base
\* price only, 0 - 1 stands for the non-integer result of any other division
CompareRecord(baseProduct, counterpartProduct) ==
    LET priceDiff == baseProduct.price - counterpartProduct.price
    IN [baseProduct |-> baseProduct,
        counterpartProduct |-> counterpartProduct,
        priceDiff |-> priceDiff,
        percentDiff |-> IF baseProduct.price > 0
                        THEN RoundPercent(Abs(priceDiff), baseProduct.price)
                        ELSE 0 - 1,
        isCheaper |-> IsCheaper(priceDiff),
        isMoreExpensive |-> priceDiff < 0,
        isSamePrice |-> priceDiff = 0]

\* whether the loop body stores a record for the key baseId
HasRecord(baseProducts, counterpartProducts, itemMappings, baseId) ==
    LET baseIdInt == parseInt(baseId)
    IN /\ ToKey(baseIdInt) \in DOMAIN itemMappings
       /\ Truthy(itemMappings[ToKey(baseIdInt)])
       /\ ToKey(itemMappings[ToKey(baseIdInt)]) \in DOMAIN counterpartProducts
       /\ PriceOk(baseProducts[baseId].price)

processAndCompare(sfProducts, tfProducts, sourcePlatform, itemMappings) ==
    LET baseProducts == IF sourcePlatform = "snappfood" THEN sfProducts ELSE tfProducts
        counterpartProducts == IF sourcePlatform = "snappfood" THEN tfProducts ELSE sfProducts
        stored == {baseId \in DOMAIN baseProducts :
                      HasRecord(baseProducts, counterpartProducts, itemMappings, baseId)}
    IN [baseId \in stored |->
           CompareRecord(baseProducts[baseId],
                         counterpartProducts[ToKey(itemMappings[ToKey(parseInt(baseId))])])]

\* a product record as fetchSnappfoodData / fetchTapsifoodData build it
Product(key, price) == [id |-> parseInt(key), price |-> price]

ProductsOf(obj) == [k \in DOMAIN obj |-> Product(k, obj[k])]

NoResults == [done |-> FALSE, results |-> <<>>]

CmpInit ==
    /\ \E sf \in Objects(SfIds, SfPrices), tf \in Objects(Ids, TfPrices),
          m \in Objects(Ids, Ids),
          src \in {"snappfood", "tapsifood"} :
          cmpIn = [sfProducts |-> ProductsOf(sf), tfProducts |-> ProductsOf(tf),
                   sourcePlatform |-> src, itemMappings |-> m]
    /\ cmpOut = NoResults

\* the comparison while another part of the program is exercised
CmpIdle ==
    /\ cmpIn = [sfProducts |-> <<>>, tfProducts |-> <<>>,
                sourcePlatform |-> "snappfood", itemMappings |-> <<>>]
    /\ cmpOut = NoResults

ProcessAndCompareCall ==
    /\ ~cmpOut.done
    /\ cmpOut' = [done |-> TRUE,
                  results |-> processAndCompare(cmpIn.sfProducts, cmpIn.tfProducts,
                                                cmpIn.sourcePlatform, cmpIn.itemMappings)]
    /\ UNCHANGED cmpIn
    /\ UNCHANGED notCmp

CmpNext == ProcessAndCompareCall

(***************************************************************************)
(* The fetchPrices handler of the background script: getVendorData with    *)
(* its retry loop, then the two product lookups under Promise.all          *)
(***************************************************************************)
\* bound of the handler model: requests handled, one after the other
MaxRequests == 2

RETRY_ATTEMPTS == 2

\* what a fetch of the API can come to: a 2xx response with a JSON body, a
\* 404, another non-2xx status, an abort by the timeout, a network failure,
\* a 2xx response whose body is not JSON
Outcomes == {"ok", "notFound", "upstream", "timeout", "network", "badBody"}

\* the error the try block of fetchFromAPI throws: its name, and whether its
\* message contains 'fetch' ("Failed to fetch" of a network failure does,
\* "API Error: <status> <statusText>" with a standard status text and the
\* parse error of response.json() do not)
ThrownError(outcome) ==
    CASE outcome = "timeout" -> [name |-> "AbortError", mentionsFetch |-> FALSE]
      [] outcome = "network" -> [name |-> "TypeError", mentionsFetch |-> TRUE]
      [] outcome = "upstream" -> [name |-> "Error", mentionsFetch |-> FALSE]
      [] outcome = "badBody" -> [name |-> "SyntaxError", mentionsFetch |-> FALSE]

ApiResult(success, error, isTimeout, isConnectionError) ==
    [success |-> success, error |-> error, isTimeout |-> isTimeout,
     isConnectionError |-> isConnectionError]

fetchFromAPI(outcome) ==
    IF outcome = "ok" THEN ApiResult(TRUE, "", FALSE, FALSE)
    ELSE IF outcome = "notFound" THEN ApiResult(FALSE, "Endpoint not found", FALSE, FALSE)
    ELSE LET error == ThrownError(outcome)
         IN IF error.name = "AbortError"
            THEN ApiResult(FALSE, "Request timeout", TRUE, FALSE)
            ELSE IF error.mentionsFetch
            THEN ApiResult(FALSE, "API server not available", FALSE, TRUE)
            ELSE ApiResult(FALSE, "error.message", FALSE, FALSE)

\* getVendorData goes on to another attempt after this result (faulty
\* variant: after any failure)
Retryable_Always(result) == TRUE

Retryable(result) == result.isTimeout \/ result.isConnectionError

\* Math.min(1000 * attempt, 3000)
RetryDelay(n) == Min(1000 * n, 3000)

NoApiResult == ApiResult(FALSE, "none", FALSE, FALSE)

\* one product lookup: fetchSnappfoodData / fetchTapsifoodData resolve to the
\* products object, or to null on any failure; null is the only falsy value
NoLookup == [state |-> "idle", isNull |-> FALSE, products |-> <<>>]

Pending == [state |-> "pending", isNull |-> FALSE, products |-> <<>>]

Resolved(isNull, products) ==
    [state |-> "resolved", isNull |-> isNull,
     products |-> IF isNull THEN <<>> ELSE products]

\* sfProducts && tfProducts (faulty variant: one of them is enough)
BothTruthy_Either(sf, tf) == ~sf.isNull \/ ~tf.isNull

BothTruthy(sf, tf) == ~sf.isNull /\ ~tf.isNull

\* the products a lookup that succeeds can bring: none, or one product
SfFetched == {<<>>, ProductsOf(ToKey(1) :> 100)}
TfFetched == {<<>>, ProductsOf(ToKey(1) :> 80)}

\* item_mappings of the vendor data
ItemMappings == ToKey(1) :> 1

Reply(success, hasData, data, error, isConnectionError) ==
    [success |-> success, hasData |-> hasData, data |-> data, error |-> error,
     isConnectionError |-> isConnectionError]

NoReply == Reply(FALSE, FALSE, <<>>, "none", FALSE)

Failure(error, isConnectionError) == Reply(FALSE, FALSE, <<>>, error, isConnectionError)

FlogNew(n) == [requests |-> n, lookups |-> 0, outcomes |-> <<>>, delays |-> <<>>,
               order |-> <<>>]

NoRequest == [sourcePlatform |-> "", sfVendorCode |-> FALSE, tfVendorCode |-> FALSE]

FetchInit ==
    /\ handler = "idle"
    /\ request = NoRequest
    /\ attempt = 0
    /\ apiResult = NoApiResult
    /\ vendorCache = {}
    /\ lookup = [sf |-> NoLookup, tf |-> NoLookup]
    /\ reply = NoReply
    /\ flog = FlogNew(0)

FetchIdle == FetchInit

\* the handler after getVendorData returned result: a failure is the reply,
\* a success starts both product lookups at once
AfterVendorData(result) ==
    /\ apiResult' = result
    /\ IF ~result.success
       THEN /\ reply' = Failure(result.error, result.isConnectionError)
            /\ handler' = "replied"
            /\ lookup' = [sf |-> NoLookup, tf |-> NoLookup]
       ELSE /\ reply' = NoReply
            /\ handler' = "lookups"
            /\ lookup' = [sf |-> Pending, tf |-> Pending]

\* a fetchPrices message arrives; the platform's code is truthy or not
FetchPricesRequest(sourcePlatform, sfVendorCode, tfVendorCode) ==
    /\ handler \in {"idle", "replied"}
    /\ flog.requests < MaxRequests
    /\ request' = [sourcePlatform |-> sourcePlatform, sfVendorCode |-> sfVendorCode,
                   tfVendorCode |-> tfVendorCode]
    /\ IF sourcePlatform = "" \/ (~sfVendorCode /\ ~tfVendorCode)
       THEN /\ reply' = Failure("Invalid request format.", FALSE)
            /\ handler' = "replied"
            /\ attempt' = 0
            /\ apiResult' = NoApiResult
            /\ lookup' = [sf |-> NoLookup, tf |-> NoLookup]
            /\ flog' = FlogNew(flog.requests + 1)
       ELSE IF \/ sourcePlatform = "snappfood" /\ sfVendorCode
               \/ sourcePlatform = "tapsifood" /\ tfVendorCode
       THEN IF sourcePlatform \in vendorCache
            THEN /\ AfterVendorData(ApiResult(TRUE, "", FALSE, FALSE))
                 /\ attempt' = 0
                 /\ flog' = FlogNew(flog.requests + 1)
            ELSE /\ handler' = "getVendorData"
                 /\ attempt' = 1
                 /\ apiResult' = NoApiResult
                 /\ lookup' = [sf |-> NoLookup, tf |-> NoLookup]
                 /\ reply' = NoReply
                 /\ flog' = [FlogNew(flog.requests + 1) EXCEPT !.lookups = 1]
       ELSE /\ reply' = Failure("Invalid platform or vendor code.", FALSE)
            /\ handler' = "replied"
            /\ attempt' = 0
            /\ apiResult' = NoApiResult
            /\ lookup' = [sf |-> NoLookup, tf |-> NoLookup]
            /\ flog' = FlogNew(flog.requests + 1)
    /\ UNCHANGED vendorCache
    /\ UNCHANGED notFetch

\* the fetchFromAPI call of the current attempt returns
FetchFromAPIReturns(outcome) ==
    /\ handler = "getVendorData"
    /\ LET result == fetchFromAPI(outcome)
           logged == [flog EXCEPT !.outcomes = Append(@, outcome)]
       IN IF result.success
          THEN /\ vendorCache' = vendorCache \cup {request.sourcePlatform}
               /\ AfterVendorData(result)
               /\ flog' = logged
               /\ UNCHANGED attempt
          ELSE IF Retryable(result) /\ attempt < RETRY_ATTEMPTS
          THEN /\ handler' = "retryDelay"
               /\ flog' = [logged EXCEPT !.delays = Append(@, RetryDelay(attempt))]
               /\ UNCHANGED <<attempt, apiResult, vendorCache, lookup, reply>>
          ELSE /\ AfterVendorData(result)
               /\ flog' = logged
               /\ UNCHANGED <<attempt, vendorCache>>
    /\ UNCHANGED request
    /\ UNCHANGED notFetch

\* the delay before a retry is over: the next attempt calls fetchFromAPI
RetryDelayElapsed ==
    /\ handler = "retryDelay"
    /\ attempt' = attempt + 1
    /\ handler' = "getVendorData"
    /\ flog' = [flog EXCEPT !.lookups = @ + 1]
    /\ UNCHANGED <<request, apiResult, vendorCache, lookup, reply>>
    /\ UNCHANGED notFetch

\* one of the two product lookups resolves, to null or to products; when
\* both have, Promise.all resolves and the handler replies
LookupResolves(platform, isNull, products) ==
    /\ handler = "lookups"
    /\ lookup[platform].state = "pending"
    /\ LET now2 == [lookup EXCEPT ![platform] = Resolved(isNull, products)]
       IN /\ lookup' = now2
          /\ IF now2.sf.state = "resolved" /\ now2.tf.state = "resolved"
             THEN /\ handler' = "replied"
                  /\ reply' = IF BothTruthy(now2.sf, now2.tf)
                              THEN Reply(TRUE, TRUE,
                                         processAndCompare(now2.sf.products, now2.tf.products,
                                                           request.sourcePlatform, ItemMappings),
                                         "", FALSE)
                              ELSE Failure(IF now2.sf.isNull /\ now2.tf.isNull
                                           THEN "(SnappFood failed) (TapsiFood failed)"
                                           ELSE IF now2.sf.isNull THEN "(SnappFood failed)"
                                           ELSE "(TapsiFood failed)", FALSE)
             ELSE UNCHANGED <<handler, reply>>
    /\ flog' = [flog EXCEPT !.order = Append(@, platform)]
    /\ UNCHANGED <<request, attempt, apiResult, vendorCache>>
    /\ UNCHANGED notFetch

\* an entry of vendorDataCache outlives CACHE_DURATION between two requests
VendorCacheExpire(key) ==
    /\ handler = "replied"
    /\ key \in vendorCache
    /\ vendorCache' = vendorCache \ {key}
    /\ UNCHANGED <<handler, request, attempt, apiResult, lookup, reply, flog>>
    /\ UNCHANGED notFetch

FetchNext ==
    \/ \E sourcePlatform \in {"", "snappfood", "tapsifood"}, sfCode, tfCode \in BOOLEAN :
           FetchPricesRequest(sourcePlatform, sfCode, tfCode)
    \/ \E outcome \in Outcomes : FetchFromAPIReturns(outcome)
    \/ RetryDelayElapsed
    \/ \E isNull \in BOOLEAN : \E products \in SfFetched : LookupResolves("sf", isNull, products)
    \/ \E isNull \in BOOLEAN : \E products \in TfFetched : LookupResolves("tf", isNull, products)
    \/ \E key \in {"snappfood", "tapsifood"} : VendorCacheExpire(key)

(***************************************************************************)
(* The getVendorList handler of the background script (getAPIStats and     *)
(* getVendorsList under Promise.all) and loadVendorStats of the popup       *)
(***************************************************************************)
\* bound of the list model: calls of loadVendorStats in one popup
MaxLoads == 2

\* one lookup of the handler: its promise, the result it resolved to and the
\* number of fetchFromAPI calls it made
ListLookup(st, result, fetches) ==
    [state |-> st, result |-> result, fetches |-> fetches]

ListLookupIdle == ListLookup("idle", NoApiResult, 0)

\* getAPIStats / getVendorsList up to their await: a cached entry is the
\* result, otherwise one fetchFromAPI call is under way
ListLookupStart(cached) ==
    IF cached THEN ListLookup("done", ApiResult(TRUE, "", FALSE, FALSE), 0)
    ELSE ListLookup("pending", NoApiResult, 1)

ListReply(success, hasVendors, vendorsError, statsError, isConnectionError) ==
    [success |-> success, hasVendors |-> hasVendors, vendorsError |-> vendorsError,
     statsError |-> statsError, isConnectionError |-> isConnectionError]

NoListReply == ListReply(FALSE, FALSE, "none", "none", FALSE)

\* the reply of the handler once both lookups have resolved; "" stands for
\* the null of apiErrors
ListReplyOf(statsResult, vendorsResult) ==
    ListReply(TRUE, vendorsResult.success,
              IF vendorsResult.success THEN "" ELSE vendorsResult.error,
              IF statsResult.success THEN "" ELSE statsResult.error,
              FALSE)

\* the handler after one of its lookups changed: it replies when both are done
ListSettle(stats, vendors) ==
    /\ getList' = [pc |-> IF stats.state = "done" /\ vendors.state = "done"
                          THEN "replied" ELSE "lookups",
                   stats |-> stats, vendors |-> vendors]
    /\ listReply' = IF stats.state = "done" /\ vendors.state = "done"
                    THEN ListReplyOf(stats.result, vendors.result)
                    ELSE NoListReply

PopupNew == [pc |-> "open", apiConnectionStatus |-> "checking", cached |-> FALSE,
             via |-> "none"]

ListInit ==
    /\ popup = PopupNew
    /\ getList = [pc |-> "idle", stats |-> ListLookupIdle, vendors |-> ListLookupIdle]
    /\ bgCaches = [stats |-> FALSE, vendors |-> FALSE]
    /\ listReply = NoListReply
    /\ llog = [loads |-> 0]

ListIdle == ListInit

\* the popup calls loadVendorStats: a live popupCache entry resolves it at
\* once, otherwise the getVendorList message starts the handler
LoadVendorStats ==
    /\ popup.pc \in {"open", "loaded"}
    /\ getList.pc = "idle"
    /\ llog.loads < MaxLoads
    /\ llog' = [loads |-> llog.loads + 1]
    /\ IF popup.cached
       THEN /\ popup' = [popup EXCEPT !.pc = "loaded", !.apiConnectionStatus = "connected",
                                      !.via = "cache"]
            /\ UNCHANGED <<getList, listReply>>
       ELSE /\ popup' = [popup EXCEPT !.pc = "waiting", !.via = "none"]
            /\ ListSettle(ListLookupStart(bgCaches.stats), ListLookupStart(bgCaches.vendors))
    /\ UNCHANGED bgCaches
    /\ UNCHANGED notList

\* the fetchFromAPI call of getAPIStats ("stats") or getVendorsList
\* ("vendors") returns: a success is cached, the result is returned as it is
ListFetchReturns(which, outcome) ==
    /\ getList.pc = "lookups"
    /\ getList[which].state = "pending"
    /\ LET result == fetchFromAPI(outcome)
           done == ListLookup("done", result, getList[which].fetches)
       IN /\ bgCaches' = IF result.success THEN [bgCaches EXCEPT ![which] = TRUE]
                         ELSE bgCaches
          /\ IF which = "stats" THEN ListSettle(done, getList.vendors)
             ELSE ListSettle(getList.stats, done)
    /\ UNCHANGED <<popup, llog>>
    /\ UNCHANGED notList

\* the callback of sendMessage in loadVendorStats runs, with or without
\* chrome.runtime.lastError
PopupCallback(lastError) ==
    /\ popup.pc = "waiting"
    /\ getList.pc = "replied"
    /\ getList' = [getList EXCEPT !.pc = "idle"]
    /\ popup' = IF lastError
                THEN [popup EXCEPT !.pc = "loaded", !.apiConnectionStatus = "error",
                                   !.via = "lastError"]
                ELSE IF listReply.success
                THEN [popup EXCEPT !.pc = "loaded", !.apiConnectionStatus = "connected",
                                   !.cached = TRUE, !.via = "reply"]
                ELSE [popup EXCEPT !.pc = "loaded", !.apiConnectionStatus = "error",
                                   !.via = "reply"]
    /\ UNCHANGED <<bgCaches, listReply, llog>>
    /\ UNCHANGED notList

\* the vendorStats entry of popupCache outlives its ttl, or is deleted by a
\* refresh
PopupCacheExpire ==
    /\ popup.pc = "loaded"
    /\ popup.cached
    /\ popup' = [popup EXCEPT !.cached = FALSE]
    /\ UNCHANGED <<getList, bgCaches, listReply, llog>>
    /\ UNCHANGED notList

\* the entry of apiStatsCache or vendorListCache outlives its ttl
BgCacheExpire(which) ==
    /\ getList.pc = "idle"
    /\ bgCaches[which]
    /\ bgCaches' = [bgCaches EXCEPT ![which] = FALSE]
    /\ UNCHANGED <<popup, getList, listReply, llog>>
    /\ UNCHANGED notList

ListNext ==
    \/ LoadVendorStats
    \/ \E which \in {"stats", "vendors"}, outcome \in Outcomes :
           ListFetchReturns(which, outcome)
    \/ \E lastError \in BOOLEAN : PopupCallback(lastError)
    \/ PopupCacheExpire
    \/ \E which \in {"stats", "vendors"} : BgCacheExpire(which)

(***************************************************************************)
(* One network-backed lookup and its abort timer: fetchFromAPI,            *)
(* fetchSnappfoodData, fetchTapsifoodData                                  *)
(***************************************************************************)
\* bounds of the lookup model: the time it covers, and PERF_CONFIG's
\* REQUEST_TIMEOUT in its time unit
MaxTime == 5
REQUEST_TIMEOUT == 2

LookupKinds == {"api", "snappfood", "tapsifood"}

\* what the lookup of that kind returns to its caller when it ends for that
\* cause: fetchFromAPI a result object, the product lookups products or null
Returned(kind, cause) ==
    IF kind = "api"
    THEN [products |-> FALSE, isNull |-> FALSE,
          api |-> fetchFromAPI(CASE cause = "ok" -> "ok"
                                 [] cause = "timeout" -> "timeout"
                                 [] cause = "network" -> "network"
                                 [] cause = "status" -> "upstream"
                                 [] cause = "badBody" -> "badBody")]
    ELSE [products |-> cause = "ok", isNull |-> cause # "ok", api |-> NoApiResult]

NotReturned == [products |-> FALSE, isNull |-> FALSE, api |-> NoApiResult]

NetIdle == [kind |-> "api", phase |-> "idle", started |-> 0, timer |-> FALSE,
            cause |-> "none", result |-> NotReturned]

LookupInit ==
    /\ net = NetIdle
    /\ tclock = 0

LookupIdle == LookupInit

\* the lookup ends for that cause; the catch block of fetchFromAPI clears the
\* timer, the others leave it to fire on an aborted controller without effect
LookupEnds(cause) ==
    net' = [net EXCEPT !.phase = "done", !.timer = FALSE, !.cause = cause,
                       !.result = Returned(net.kind, cause)]

\* the lookup starts: the abort timer is set and fetch is called
LookupStarts(kind) ==
    /\ net.phase \in {"idle", "done"}
    /\ tclock + REQUEST_TIMEOUT < MaxTime
    /\ net' = [kind |-> kind, phase |-> "headers", started |-> tclock, timer |-> TRUE,
               cause |-> "none", result |-> NotReturned]
    /\ UNCHANGED tclock
    /\ UNCHANGED notTo

\* fetch resolves with the response: the timer is cleared; a non-2xx status
\* ends the lookup, otherwise response.json() is awaited
ResponseArrives(ok) ==
    /\ net.phase = "headers"
    /\ IF ok THEN net' = [net EXCEPT !.phase = "body", !.timer = FALSE]
       ELSE LookupEnds("status")
    /\ UNCHANGED tclock
    /\ UNCHANGED notTo

\* fetch rejects because the server cannot be reached
FetchFails ==
    /\ net.phase = "headers"
    /\ LookupEnds("network")
    /\ UNCHANGED tclock
    /\ UNCHANGED notTo

\* response.json() settles, with the parsed body or a parse error
BodyArrives(valid) ==
    /\ net.phase = "body"
    /\ LookupEnds(IF valid THEN "ok" ELSE "badBody")
    /\ UNCHANGED tclock
    /\ UNCHANGED notTo

\* the abort timer fires: controller.abort() rejects the pending fetch with
\* an AbortError
AbortTimerFires ==
    /\ net.timer
    /\ tclock >= net.started + REQUEST_TIMEOUT
    /\ net.phase = "headers"
    /\ LookupEnds("timeout")
    /\ UNCHANGED tclock
    /\ UNCHANGED notTo

\* time passes; a timer that is due fires first
LookupTick ==
    /\ tclock < MaxTime
    /\ ~(net.timer /\ tclock >= net.started + REQUEST_TIMEOUT)
    /\ tclock' = tclock + 1
    /\ UNCHANGED net
    /\ UNCHANGED notTo

LookupNext ==
    \/ \E kind \in LookupKinds : LookupStarts(kind)
    \/ \E ok \in BOOLEAN : ResponseArrives(ok)
    \/ FetchFails
    \/ \E valid \in BOOLEAN : BodyArrives(valid)
    \/ AbortTimerFires
    \/ LookupTick

(***************************************************************************)
(* Search of the content script: strings, scoring, ranking                 *)
(***************************************************************************)
\* bound of the ranking model: records in the data set
MaxRecs == 3

\* strings are sequences of characters; the characters of the model are two
\* Latin letters in both cases, the letter pair ی / ي that normalizeText
\* makes one ("y1", "y2"), a letter outside every record, and the space
Chars == {"a", "A", "b", "B", "y1", "y2", "c", " "}

\* String.prototype.toLowerCase, per character
LowerChar(c) == IF c = "A" THEN "a" ELSE IF c = "B" THEN "b" ELSE c

toLowerCase(str) == [i \in 1..Len(str) |-> LowerChar(str[i])]

\* String.prototype.trim
RECURSIVE TrimLeft(_)
TrimLeft(str) ==
    IF str # <<>> /\ Head(str) = " " THEN TrimLeft(Tail(str)) ELSE str

RECURSIVE TrimRight(_)
TrimRight(str) ==
    IF str # <<>> /\ str[Len(str)] = " " THEN TrimRight(SubSeq(str, 1, Len(str) - 1))
    ELSE str

trim(str) == TrimRight(TrimLeft(str))

\* str.split(/\s+/).filter(word => word.length > 0)
RECURSIVE Words(_)
Words(str) ==
    LET t == TrimLeft(str)
    IN IF t = <<>> THEN <<>>
       ELSE LET n == CHOOSE k \in 1..Len(t) :
                        /\ \A i \in 1..k : t[i] # " "
                        /\ k = Len(t) \/ t[k + 1] = " "
            IN <<SubSeq(t, 1, n)>> \o Words(SubSeq(t, n + 1, Len(t)))

\* String.prototype.startsWith / includes
startsWith(text, part) ==
    Len(part) <= Len(text) /\ SubSeq(text, 1, Len(part)) = part

includes(text, part) ==
    \E i \in 0..Len(text) :
        i + Len(part) <= Len(text) /\ SubSeq(text, i + 1, i + Len(part)) = part

\* the replace calls of normalizeText, per character
CanonChar(c) == IF c = "y2" THEN "y1" ELSE c

normalizeText(str) == trim(toLowerCase([i \in 1..Len(str) |-> CanonChar(str[i])]))

calculateSimpleSimilarity(query, text) ==
    LET normalizedQuery == normalizeText(query)
        normalizedText == normalizeText(text)
        n == Len(normalizedText)
        \* the index i of the loop at which the j-th character of the query
        \* is matched: the first place after the previous match that holds
        \* it; n + 1 when the loop ends without it
        P[j \in 0..Len(normalizedQuery)] ==
            IF j = 0 THEN 0
            ELSE LET from == P[j - 1]
                     at == {i \in 1..n : i > from /\ normalizedText[i] = normalizedQuery[j]}
                 IN IF at = {} THEN n + 1
                    ELSE CHOOSE i \in at : \A k \in at : i <= k
        queryIndex == Cardinality({j \in 1..Len(normalizedQuery) : P[j] <= n})
        queryWords == IF normalizedQuery = <<>> THEN <<<<>>>> ELSE Words(normalizedQuery)
        W[i \in 0..Len(queryWords)] ==
            IF i = 0 THEN 0
            ELSE W[i - 1] + IF Len(queryWords[i]) > 1 /\ includes(normalizedText, queryWords[i])
                            THEN 20 ELSE 0
    IN 10 * queryIndex
       + (IF queryIndex = Len(normalizedQuery) THEN 30 ELSE 0)
       + W[Len(queryWords)]

\* the text a record is searched by
SearchableText(item, hasProductData) ==
    IF hasProductData
    THEN toLowerCase(item.baseName \o <<" ">> \o item.cpName)
    ELSE toLowerCase(item.sf_name \o <<" ">> \o item.tf_name)
             \o toLowerCase(<<" ">> \o item.sf_code \o <<" ">> \o item.tf_code)

\* the bonus of a short text
ShortBonus(text) == IF Len(text) < 50 THEN 10 ELSE 0

\* searchScore of a record with that searchable text
SearchScore(query, searchableText) ==
    LET lowerQuery == trim(toLowerCase(query))
        queryWords == Words(lowerQuery)
        S[i \in 0..Len(queryWords)] ==
            IF i = 0 THEN 0
            ELSE S[i - 1]
                 + IF includes(searchableText, queryWords[i])
                   THEN 100 + IF \/ includes(searchableText, <<" ">> \o queryWords[i])
                                 \/ startsWith(searchableText, queryWords[i])
                              THEN 50 ELSE 0
                   ELSE calculateSimpleSimilarity(queryWords[i], searchableText)
    IN (IF includes(searchableText, lowerQuery) THEN 1000 ELSE 0)
       + S[Len(queryWords)]
       + ShortBonus(searchableText)

\* Array.prototype.sort with (a, b) => b.searchScore - a.searchScore: a
\* stable sort, here by insertion (faulty variant: a record goes before the
\* records of its own score)
Before_OrEqual(x, y) == x.searchScore >= y.searchScore

Before(x, y) == x.searchScore > y.searchScore

RECURSIVE InsertByScore(_, _)
InsertByScore(sorted, x) ==
    IF sorted = <<>> THEN <<x>>
    ELSE IF Before(x, Head(sorted)) THEN <<x>> \o sorted
    ELSE <<Head(sorted)>> \o InsertByScore(Tail(sorted), x)

SortByScore(list) ==
    LET F[i \in 0..Len(list)] ==
            IF i = 0 THEN <<>> ELSE InsertByScore(F[i - 1], list[i])
    IN F[Len(list)]

\* Array.prototype.filter
Filter(list, Keep(_)) ==
    LET F[i \in 0..Len(list)] ==
            IF i = 0 THEN <<>>
            ELSE IF Keep(list[i]) THEN Append(F[i - 1], list[i]) ELSE F[i - 1]
    IN F[Len(list)]

AboveThreshold(r) == r.searchScore > 5

\* performSmartSearch: the records of data with their scores, those above the
\* threshold, by descending score; a record is named by its position in data
performSmartSearch(query, data, hasProductData) ==
    IF Words(trim(toLowerCase(query))) = <<>>
    THEN [i \in 1..Len(data) |-> [index |-> i, searchScore |-> 0]]
    ELSE SortByScore(Filter([i \in 1..Len(data) |->
                                [index |-> i,
                                 searchScore |-> SearchScore(query,
                                                     SearchableText(data[i], hasProductData))]],
                            AboveThreshold))

\* names of products: short ones, and one of fifty characters
LongName == [i \in 1..50 |-> "b"]

RankItem(baseName, cpName) == [baseName |-> baseName, cpName |-> cpName]

RankItems == {RankItem(<<"a", "b">>, <<>>), RankItem(<<"y1">>, <<"a">>),
              RankItem(<<"B">>, <<>>), RankItem(<<"b">>, <<"a">>),
              RankItem(LongName, <<>>)}

RankQueries == {<<"a">>, <<"A">>, <<"y2">>, <<"c">>, <<"a", " ", "b">>, <<" ", "b">>}

SeqsUpTo(S, n) == UNION {[1..k -> S] : k \in 0..n}

NoRanking == [done |-> FALSE, results |-> <<>>]

RankInit ==
    /\ rankIn \in [query : RankQueries, data : SeqsUpTo(RankItems, MaxRecs)]
    /\ rankOut = NoRanking

\* the ranking while another part of the program is exercised
RankIdle ==
    /\ rankIn = [query |-> <<>>, data |-> <<>>]
    /\ rankOut = NoRanking

PerformSmartSearchCall ==
    /\ ~rankOut.done
    /\ rankOut' = [done |-> TRUE,
                   results |-> performSmartSearch(rankIn.query, rankIn.data, TRUE)]
    /\ UNCHANGED rankIn
    /\ UNCHANGED notRank

RankNext == PerformSmartSearchCall

(***************************************************************************)
(* The search widget: performAdvancedSearch, filters, sorting, handlers    *)
(***************************************************************************)
\* bounds of the widget model: the result cap (200 in the source) and the
\* number of clicks and inputs of a run
MAX_SEARCH_RESULTS == 2

MaxEvents == 3

\* the records a menu page can hold, named by their position
SearchProducts ==
    <<[baseName |-> <<"b">>, cpName |-> <<>>,
       price |-> 30000, priceDiff |-> 6000, percentDiff |-> 20],
      [baseName |-> <<"a">>, cpName |-> <<>>,
       price |-> 10000, priceDiff |-> -7000, percentDiff |-> -70],
      [baseName |-> <<"a", " ", "b">>, cpName |-> <<>>,
       price |-> 20000, priceDiff |-> 0, percentDiff |-> 0],
      [baseName |-> <<"b", " ", "a">>, cpName |-> <<>>,
       price |-> 40000, priceDiff |-> 8000, percentDiff |-> 20]>>

\* the vendors a list page can hold, named by their position
SearchVendors ==
    <<[sf_name |-> <<"b">>, tf_name |-> <<"b">>, sf_code |-> <<"b">>, tf_code |-> <<"b">>],
      [sf_name |-> <<"a">>, tf_name |-> <<"a">>, sf_code |-> <<"a">>, tf_code |-> <<"a">>],
      [sf_name |-> <<"a", " ", "b">>, tf_name |-> <<"a">>, sf_code |-> <<"a">>,
       tf_code |-> <<"a">>]>>

Categories == {"all", "tf-cheaper", "sf-cheaper", "same-price", "high-savings", "favorites"}

SortTypes == {"relevance", "savings-desc", "percent-desc", "price-asc", "price-desc",
              "name-asc", "name-desc"}

\* what the user does in a run: the sort orders picked, the text typed
\* into the search input, and the value of the max-price input (parseInt of
\* its text; null for a text that is no number)
SortChoices == {"relevance", "price-asc", "name-desc"}

SearchTexts == {<<" ", "a">>}

MaxPrices == {Null, 15000}

\* String.prototype.localeCompare for the names above: lower-case letters
\* and the space, the space first
CharRank(c) ==
    IF c = " " THEN 0 ELSE IF LowerChar(c) = "a" THEN 1 ELSE IF LowerChar(c) = "b" THEN 2 ELSE 3

localeCompare(x, y) ==
    LET d == {i \in 1..Min(Len(x), Len(y)) : CharRank(x[i]) # CharRank(y[i])}
    IN IF d = {}
       THEN (IF Len(x) < Len(y) THEN -1 ELSE IF Len(x) > Len(y) THEN 1 ELSE 0)
       ELSE LET i == CHOOSE j \in d : \A k \in d : j <= k
            IN IF CharRank(x[i]) < CharRank(y[i]) THEN -1 ELSE 1

\* Array.prototype.sort with a compare function: stable
ArraySort(list, Compare(_, _)) ==
    LET Insert(sorted, x) ==
            LET at == {i \in 1..Len(sorted) : Compare(x, sorted[i]) < 0}
            IN IF at = {} THEN Append(sorted, x)
               ELSE LET p == CHOOSE j \in at : \A k \in at : j <= k
                    IN SubSeq(sorted, 1, p - 1) \o <<x>> \o SubSeq(sorted, p, Len(sorted))
        F[i \in 0..Len(list)] ==
            IF i = 0 THEN <<>> ELSE Insert(F[i - 1], list[i])
    IN F[Len(list)]

\* searchManager.isFavorite
isFavorite(name) == name \in searchManager.favorites

\* applyCategoryFilters, on a list of record names
applyCategoryFilters(results, category, hasProductData) ==
    LET R(r) == SearchProducts[r]
        HighSavings(r) == Abs(R(r).priceDiff) > 5000
        WithinMaxPrice(r) == R(r).price <= searchManager.maxPrice
        TfCheaper(r) == R(r).priceDiff > 0
        SfCheaper(r) == R(r).priceDiff < 0
        SamePrice(r) == R(r).priceDiff = 0
        Favorite(r) == isFavorite(R(r).baseName)
    IN IF ~hasProductData THEN results
       ELSE CASE category = "tf-cheaper" -> Filter(results, TfCheaper)
              [] category = "sf-cheaper" -> Filter(results, SfCheaper)
              [] category = "same-price" -> Filter(results, SamePrice)
              [] category = "high-savings" ->
                     LET filtered == Filter(results, HighSavings)
                     IN IF Truthy(searchManager.maxPrice)
                        THEN Filter(filtered, WithinMaxPrice)
                        ELSE filtered
              [] category = "favorites" -> Filter(results, Favorite)
              [] OTHER -> results

\* applySorting, on a list of record names
applySorting(results, sortType, hasProductData) ==
    LET V(r) == SearchVendors[r]
        R(r) == SearchProducts[r]
        VendorNameAsc(a, b) == localeCompare(V(a).sf_name, V(b).sf_name)
        VendorNameDesc(a, b) == localeCompare(V(b).sf_name, V(a).sf_name)
        PriceAsc(a, b) == R(a).price - R(b).price
        PriceDesc(a, b) == R(b).price - R(a).price
        SavingsDesc(a, b) == Abs(R(b).priceDiff) - Abs(R(a).priceDiff)
        PercentDesc(a, b) == R(b).percentDiff - R(a).percentDiff
        NameAsc(a, b) == localeCompare(R(a).baseName, R(b).baseName)
        NameDesc(a, b) == localeCompare(R(b).baseName, R(a).baseName)
    IN IF ~hasProductData
       THEN CASE sortType = "name-asc" -> ArraySort(results, VendorNameAsc)
              [] sortType = "name-desc" -> ArraySort(results, VendorNameDesc)
              [] OTHER -> results
       ELSE CASE sortType = "price-asc" -> ArraySort(results, PriceAsc)
              [] sortType = "price-desc" -> ArraySort(results, PriceDesc)
              [] sortType = "savings-desc" -> ArraySort(results, SavingsDesc)
              [] sortType = "percent-desc" -> ArraySort(results, PercentDesc)
              [] sortType = "name-asc" -> ArraySort(results, NameAsc)
              [] sortType = "name-desc" -> ArraySort(results, NameDesc)
              [] OTHER -> results

\* the cut of a list that is longer than the cap (faulty variant: the last
\* records are kept)
Limit_Last(results) ==
    IF Len(results) > MAX_SEARCH_RESULTS
    THEN SubSeq(results, Len(results) - MAX_SEARCH_RESULTS + 1, Len(results))
    ELSE results

Limit(results) ==
    IF Len(results) > MAX_SEARCH_RESULTS
    THEN SubSeq(results, 1, MAX_SEARCH_RESULTS)
    ELSE results

\* Object.keys(state.comparisonData).length > 0
HasProductData == comparisonData # <<>>

\* the template string `${query}-${category}-${hasProductData}`: the
\* category is one of six words and the flag one of two, so two keys are the
\* same string exactly when the three parts are the same
CacheKey(query, category, hasProductData) == <<query, category, hasProductData>>

\* the records searched, and the list of a search that is not in the cache,
\* before the cut: ranked when there is a query, filtered, sorted
SearchData == IF HasProductData THEN comparisonData ELSE vendorList

Ranked(query) ==
    IF query # <<>>
    THEN LET data == [i \in 1..Len(SearchData) |->
                         IF HasProductData THEN SearchProducts[SearchData[i]]
                         ELSE SearchVendors[SearchData[i]]]
             scored == performSmartSearch(query, data, HasProductData)
         IN [i \in 1..Len(scored) |-> SearchData[scored[i].index]]
    ELSE SearchData

FilteredSorted(query) ==
    applySorting(applyCategoryFilters(Ranked(query), searchManager.currentCategory,
                                      HasProductData),
                 searchManager.currentSort, HasProductData)

\* without a query and without product data the list that is filtered and
\* sorted is the array state.vendorList itself: the sort reorders that
\* array, and unless the cut copies it, it is that array the cache holds
SearchesVendorArray(query) == query = <<>> /\ ~HasProductData

\* a value of the search cache: the array state.vendorList, or an array of
\* its own
Cached(list, isVendorArray) ==
    [isVendorArray |-> isVendorArray, list |-> IF isVendorArray THEN <<>> ELSE list]

ListOf(cached, array) == IF cached.isVendorArray THEN array ELSE cached.list

\* searchManager.searchTimeout
SearchTimer(query) == [set |-> TRUE, query |-> query]

NoSearchTimer == [set |-> FALSE, query |-> <<>>]

\* the part of performAdvancedSearch that runs in the handler: the pending
\* timer is replaced
performAdvancedSearch(sm, query) == [sm EXCEPT !.searchTimeout = SearchTimer(query)]

SearchManagerNew ==
    [currentCategory |-> "all", maxPrice |-> Null, currentSort |-> "relevance",
     favorites |-> {}, searchTimeout |-> NoSearchTimer, searchResults |-> <<>>]

\* history of the searches since the cache was last cleared
SearchQueries == {<<>>} \cup {trim(t) : t \in SearchTexts}

SearchKeys == {CacheKey(q, c, h) : q \in SearchQueries, c \in Categories, h \in BOOLEAN}

NotShown == [seen |-> FALSE, list |-> <<>>]

NoSearch == [ran |-> FALSE, key |-> CacheKey(<<>>, "all", FALSE), hit |-> FALSE, total |-> 0]

SearchLogNew == [shown |-> [k \in SearchKeys |-> NotShown], last |-> NoSearch, events |-> 0]

\* after createSearchWidget on a menu page with four records or on a list
\* page with two or three vendors: setupWidgetInteractions has asked for
\* the first search
SearchInit ==
    /\ \/ comparisonData = <<1, 2, 3, 4>> /\ vendorList = <<>>
       \/ comparisonData = <<>> /\ vendorList \in {<<2, 1>>, <<2, 1, 3>>}
    /\ searchManager = performAdvancedSearch(SearchManagerNew, <<>>)
    /\ inputValue = <<>>
    /\ searchCache = CsNew(CACHE_SIZE_SEARCH)
    /\ searchLog = SearchLogNew

\* the widget while another part of the program is exercised
SearchIdle ==
    /\ comparisonData = <<>>
    /\ vendorList = <<>>
    /\ searchManager = SearchManagerNew
    /\ inputValue = <<>>
    /\ searchCache = CsNew(CACHE_SIZE_SEARCH)
    /\ searchLog = SearchLogNew

CountEvent == [searchLog EXCEPT !.events = @ + 1]

\* input listener of the search box
SearchInput(text) ==
    /\ searchLog.events < MaxEvents
    /\ inputValue' = text
    /\ searchManager' = performAdvancedSearch(searchManager, trim(text))
    /\ searchLog' = CountEvent
    /\ UNCHANGED <<comparisonData, vendorList, searchCache>>
    /\ UNCHANGED notSearch

\* click listener of the clear button
ClearButtonClick ==
    /\ searchLog.events < MaxEvents
    /\ inputValue' = <<>>
    /\ searchManager' = performAdvancedSearch(searchManager, <<>>)
    /\ searchLog' = CountEvent
    /\ UNCHANGED <<comparisonData, vendorList, searchCache>>
    /\ UNCHANGED notSearch

\* click listener of a category button
CategoryClick(category) ==
    /\ searchLog.events < MaxEvents
    /\ searchManager' =
           performAdvancedSearch(
               [searchManager EXCEPT !.currentCategory = category,
                                     !.maxPrice = IF category = "high-savings" THEN @ ELSE Null],
               trim(inputValue))
    /\ searchLog' = CountEvent
    /\ UNCHANGED <<comparisonData, vendorList, inputValue, searchCache>>
    /\ UNCHANGED notSearch

\* input listener of the max-price field, which is displayed while the
\* category is high-savings
MaxPriceInput(value) ==
    /\ searchLog.events < MaxEvents
    /\ searchManager.currentCategory = "high-savings"
    /\ LET sm == [searchManager EXCEPT !.maxPrice = value]
       IN searchManager' = IF sm.currentCategory = "high-savings"
                           THEN performAdvancedSearch(sm, trim(inputValue))
                           ELSE sm
    /\ searchLog' = CountEvent
    /\ UNCHANGED <<comparisonData, vendorList, inputValue, searchCache>>
    /\ UNCHANGED notSearch

\* change listener of the sort select
SortChange(sortType) ==
    /\ searchLog.events < MaxEvents
    /\ searchManager' =
           performAdvancedSearch([searchManager EXCEPT !.currentSort = sortType],
                                 trim(inputValue))
    /\ searchLog' = CountEvent
    /\ UNCHANGED <<comparisonData, vendorList, inputValue, searchCache>>
    /\ UNCHANGED notSearch

\* click on the favorite icon of a rendered record: toggleFavorite
FavoriteClick(r) ==
    /\ searchLog.events < MaxEvents
    /\ HasProductData
    /\ \E i \in 1..Len(searchManager.searchResults) : searchManager.searchResults[i] = r
    /\ LET name == SearchProducts[r].baseName
       IN searchManager' =
              [searchManager EXCEPT !.favorites = IF name \in @ THEN @ \ {name}
                                                  ELSE @ \cup {name}]
    /\ searchLog' = CountEvent
    /\ UNCHANGED <<comparisonData, vendorList, inputValue, searchCache>>
    /\ UNCHANGED notSearch

\* click on "clear cache" of the settings
ClearCacheClick ==
    /\ searchLog.events < MaxEvents
    /\ searchCache' = CsClear(searchCache)
    /\ searchLog' = [CountEvent EXCEPT !.shown = [k \in SearchKeys |-> NotShown]]
    /\ UNCHANGED <<comparisonData, vendorList, searchManager, inputValue>>
    /\ UNCHANGED notSearch

\* the timer callback of performAdvancedSearch
SearchTimerFires ==
    /\ searchManager.searchTimeout.set
    /\ LET query == searchManager.searchTimeout.query
           cacheKey == CacheKey(query, searchManager.currentCategory, HasProductData)
           got == CsGet(searchCache, cacheKey)
           hit == MapHas(searchCache.cache, cacheKey)
           sorted == FilteredSorted(query)
           limited == Limit(sorted)
           array == IF ~hit /\ SearchesVendorArray(query) THEN sorted ELSE vendorList
           results == IF hit THEN ListOf(got.ret, vendorList) ELSE limited
       IN /\ vendorList' = array
          /\ searchCache' =
                 IF hit THEN got.obj
                 ELSE CsSet(got.obj, cacheKey,
                            Cached(limited, SearchesVendorArray(query)
                                            /\ Len(sorted) <= MAX_SEARCH_RESULTS))
          /\ searchManager' = [searchManager EXCEPT !.searchTimeout = NoSearchTimer,
                                                    !.searchResults = results]
          /\ searchLog' =
                 [searchLog EXCEPT !.shown[cacheKey] = [seen |-> TRUE, list |-> results],
                                   !.last = [ran |-> TRUE, key |-> cacheKey, hit |-> hit,
                                             total |-> IF hit THEN 0 ELSE Len(sorted)]]
    /\ UNCHANGED <<comparisonData, inputValue>>
    /\ UNCHANGED notSearch

SearchNext ==
    \/ \E text \in SearchTexts : SearchInput(text)
    \/ ClearButtonClick
    \/ \E category \in Categories : CategoryClick(category)
    \/ \E value \in MaxPrices : MaxPriceInput(value)
    \/ \E sortType \in SortChoices : SortChange(sortType)
    \/ \E r \in 1..Len(SearchProducts) : FavoriteClick(r)
    \/ ClearCacheClick
    \/ SearchTimerFires

(***************************************************************************)
(* extractRatingFromElement over the content of the candidates             *)
(***************************************************************************)
\* bounds of the rating model: the length of the cache key (the first 100
\* characters of outerHTML in the source), the candidates of a page and
\* the extractions of a run
RATING_KEY_LENGTH == 2

MaxCards == 2

MaxExtractions == 3

\* outerHTML is a sequence of pieces: markup, or the text of the rating
\* element with a rating in tenths
HtmlPieces == {"div", "r38", "r45"}

\* the contents of a candidate: markup, then possibly the rating element
Htmls ==
    {h \in UNION {[1..n -> HtmlPieces] : n \in 1..(RATING_KEY_LENGTH + 1)} :
        \A i \in 1..(Len(h) - 1) : h[i] = "div"}

PieceRating(piece) == IF piece = "r38" THEN 38 ELSE IF piece = "r45" THEN 45 ELSE Null

\* the strategies of extractRatingFromElement: the first rating the content
\* of the element holds, null when it holds none
RatingInContent(html) ==
    LET at == {i \in 1..Len(html) : PieceRating(html[i]) # Null}
    IN IF at = {} THEN Null
       ELSE PieceRating(html[CHOOSE i \in at : \A j \in at : i <= j])

\* element.outerHTML?.substring(0, 100)
RatingCacheKey(html) == SubSeq(html, 1, Min(Len(html), RATING_KEY_LENGTH))

\* extractRatingFromElement(element, 'restaurant'): a cached value other
\* than null is returned, else the content is searched and the result,
\* null too, is cached
extractRatingOfHtml(cache, html) ==
    LET cacheKey == RatingCacheKey(html)
        g == CsGet(cache, cacheKey)
    IN IF g.ret # Null
       THEN [cache |-> g.obj, rating |-> g.ret]
       ELSE [cache |-> CsSet(g.obj, cacheKey, RatingInContent(html)),
             rating |-> RatingInContent(html)]

NoRatingUse == [card |-> 0, rating |-> Null, count |-> 0]

RatingInit ==
    /\ cards \in UNION {[1..n -> Htmls] : n \in 1..MaxCards}
    /\ ratings = CsNew(CACHE_SIZE_RATINGS)
    /\ ratingUse = NoRatingUse

\* the candidates while another part of the program is exercised
RatingIdle ==
    /\ cards = <<>>
    /\ ratings = CsNew(CACHE_SIZE_RATINGS)
    /\ ratingUse = NoRatingUse

\* processChunk takes the rating of a candidate
ExtractRatingCall(card) ==
    /\ ratingUse.count < MaxExtractions
    /\ LET r == extractRatingOfHtml(ratings, cards[card])
       IN /\ ratings' = r.cache
          /\ ratingUse' = [card |-> card, rating |-> r.rating, count |-> ratingUse.count + 1]
    /\ UNCHANGED cards
    /\ UNCHANGED notRating

RatingNext == \E card \in 1..Len(cards) : ExtractRatingCall(card)

(***************************************************************************)
(* findBestContainer over the ancestors of a link                          *)
(***************************************************************************)
\* bounds of the container model: the elements between the link and the
\* body, and the calls for one link
MaxWrappers == 2

MaxFinds == 2

\* an element as the selectors of findBestContainer see it: its tag and
\* whether its class attribute holds "card"/"Card", "vendor"/"restaurant"
ClassKinds == {"plain", "card", "vendor"}

Wrappers == [tag : {"div", "article", "li"}, class : ClassKinds]

LinkElements == [tag : {"a"}, class : ClassKinds]

BodyElements == [tag : {"body"}, class : {"plain", "vendor"}]

HtmlElement == [tag |-> "html", class |-> "plain"]

\* the documents: the link, its wrappers from the innermost, body, html
AncestorChains ==
    {<<l>> \o w \o <<b, HtmlElement>> :
        l \in LinkElements, b \in BodyElements,
        w \in UNION {[1..n -> Wrappers] : n \in 0..MaxWrappers}}

\* document.body and document.documentElement of a chain
DocumentBody(chain) == Len(chain) - 1

DocumentElement(chain) == Len(chain)

\* link.parentElement
ParentElement(chain) == 2

\* link.closest(selector): the link itself or its nearest ancestor the
\* selector matches, null when there is none
Closest(chain, Matches(_)) ==
    LET at == {i \in 1..Len(chain) : Matches(chain[i])}
    IN IF at = {} THEN Null ELSE CHOOSE i \in at : \A j \in at : i <= j

IsCard(e) == e.class = "card"

IsArticle(e) == e.tag = "article"

IsListItem(e) == e.tag = "li"

IsVendor(e) == e.class = "vendor"

\* the candidates array of findBestContainer
ContainerCandidates(chain) ==
    <<Closest(chain, IsCard), Closest(chain, IsArticle), Closest(chain, IsListItem),
      Closest(chain, IsVendor), ParentElement(chain)>>

\* candidate && candidate !== document.body && candidate !== document.documentElement
Acceptable(chain, candidate) ==
    /\ candidate # Null
    /\ candidate # DocumentBody(chain)
    /\ candidate # DocumentElement(chain)

\* candidates.find(...) || link.parentElement
FindContainer(chain) ==
    LET candidates == ContainerCandidates(chain)
        ok == {i \in 1..Len(candidates) : Acceptable(chain, candidates[i])}
    IN IF ok = {} THEN ParentElement(chain)
       ELSE candidates[CHOOSE i \in ok : \A j \in ok : i <= j]

TreeInit ==
    /\ ancestors \in AncestorChains
    /\ linkMemo = <<>>
    /\ bestContainer = <<>>

\* no document while another part of the program is exercised
TreeIdle ==
    /\ ancestors = <<>>
    /\ linkMemo = <<>>
    /\ bestContainer = <<>>

\* findBestContainer(link): the memo answers a link seen before
FindBestContainerCall ==
    /\ ancestors # <<>>
    /\ Len(bestContainer) < MaxFinds
    /\ IF linkMemo # <<>>
       THEN /\ bestContainer' = Append(bestContainer, linkMemo[1])
            /\ UNCHANGED linkMemo
       ELSE /\ linkMemo' = <<FindContainer(ancestors)>>
            /\ bestContainer' = Append(bestContainer, FindContainer(ancestors))
    /\ UNCHANGED ancestors
    /\ UNCHANGED notTree

TreeNext == FindBestContainerCall

(***************************************************************************)
(* Menu pages: initSnappFoodMenu, injectSnappFoodComparisons, reinitialize *)
(***************************************************************************)
\* bounds of the menu model: the navigations of a run and the cards of a
\* vendor's menu
MaxMenuNav == 2

CardsPerVendor == 1

\* the slice length of injectSnappFoodComparisons.processChunk
PRODUCT_CHUNK_SIZE == 10

\* two urls of the menu of vendor "A", one of the menu of vendor "B"
MenuUrls == {"menuA", "menuA?tab", "menuB"}

\* extractVendorCodeFromUrl of a menu url
MenuVendorCode(url) == IF url = "menuB" THEN "B" ELSE "A"

MenuVendors == {"A", "B"}

\* the product cards the host page shows for a vendor, and all cards
MenuCardsOf(vendor) ==
    IF vendor = "A" THEN 1..CardsPerVendor ELSE (CardsPerVendor + 1)..(2 * CardsPerVendor)

MenuCards == 1..(2 * CardsPerVendor)

\* titleElement.textContent.trim() of a card
CardTitle(card) == IF card \in MenuCardsOf("A") THEN <<"kabab", card>> ELSE <<"pizza", card>>

\* the base product names of response.data for a vendor
BaseProductNames(vendor) == {CardTitle(card) : card \in MenuCardsOf(vendor)}

\* state.comparisonData: {} or the data of a reply, with the epoch of the
\* req it answers
NoComparisonData == [has |-> FALSE, vendor |-> "A", epoch |-> 0]

ComparisonDataOf(req) == [has |-> TRUE, vendor |-> req.vendor, epoch |-> req.epoch]

\* Object.values(state.comparisonData).find(p => p.baseProduct.name.trim() === cardTitle)
MatchedProduct(data, card) == data.has /\ CardTitle(card) \in BaseProductNames(data.vendor)

\* state.domCache for the product card selector
NoDomCache == [has |-> FALSE, cards |-> <<>>]

\* document.querySelectorAll(selector): the cards in document order
QuerySelectorAll(inDocument) ==
    LET F[n \in 0..(2 * CardsPerVendor)] ==
            IF n = 0 THEN <<>>
            ELSE LET rest == F[n - 1]
                 IN IF n \in inDocument THEN Append(rest, n) ELSE rest
    IN F[2 * CardsPerVendor]

\* DOMCache.get(selector)
DomCacheGet(domCache, inDocument) ==
    IF domCache.has THEN domCache ELSE [has |-> TRUE, cards |-> QuerySelectorAll(inDocument)]

\* injectSnappFoodComparison(productCard) on the marks of the cards
injectSnappFoodComparison(marks, data, card) ==
    IF ~MatchedProduct(data, card) THEN [marks EXCEPT ![card] = "unpaired"]
    ELSE IF marks[card] = "compared" THEN marks
    ELSE [marks EXCEPT ![card] = "compared"]

\* processChunk(startIndex) of injectSnappFoodComparisons: the cards of the
\* slice not yet in processedProducts are handled and entered
ProductChunk(slice, processed, marks, data) ==
    LET endIndex == Min(slice.startIndex + PRODUCT_CHUNK_SIZE, Len(slice.productCards))
        F[i \in slice.startIndex..endIndex] ==
            IF i = slice.startIndex THEN [processed |-> processed, marks |-> marks]
            ELSE LET before == F[i - 1]
                     card == slice.productCards[i]
                 IN IF card \in before.processed THEN before
                    ELSE [processed |-> before.processed \cup {card},
                          marks |-> injectSnappFoodComparison(before.marks, data, card)]
    IN [processed |-> F[endIndex].processed, marks |-> F[endIndex].marks,
        more |-> IF endIndex < Len(slice.productCards)
                 THEN <<[productCards |-> slice.productCards, startIndex |-> endIndex]>>
                 ELSE <<>>]

\* a sequence without the elements outside a set
KeepCards(seq, keep) ==
    LET F[n \in 0..Len(seq)] ==
            IF n = 0 THEN <<>>
            ELSE LET rest == F[n - 1]
                 IN IF seq[n] \in keep THEN Append(rest, seq[n]) ELSE rest
    IN F[Len(seq)]

MenuInit ==
    /\ menuPage \in [url : MenuUrls, cards : {{}}]
    /\ menuState = [comparisonData |-> NoComparisonData, lastUrl |-> menuPage.url,
                    domCache |-> NoDomCache, activeObservers |-> 0]
    /\ processedProducts = {}
    /\ cardMarks = [card \in MenuCards |-> "none"]
    /\ menuTimers = [reinit |-> FALSE, init |-> TRUE, debounce |-> FALSE]
    /\ menuQueue = <<>>
    /\ menuRequests = {}
    /\ menuHist = [epoch |-> 1, navs |-> 0]

\* no menu page while another part of the program is exercised
MenuIdle ==
    /\ menuPage = [url |-> "none", cards |-> {}]
    /\ menuState = [comparisonData |-> NoComparisonData, lastUrl |-> "none",
                    domCache |-> NoDomCache, activeObservers |-> 0]
    /\ processedProducts = {}
    /\ cardMarks = [card \in MenuCards |-> "none"]
    /\ menuTimers = [reinit |-> FALSE, init |-> FALSE, debounce |-> FALSE]
    /\ menuQueue = <<>>
    /\ menuRequests = {}
    /\ menuHist = [epoch |-> 0, navs |-> 0]

\* the host application shows another menu url; the cards of another
\* vendor's menu leave the document.  An element that left is never in the
\* document again, its number is used anew, so it is forgotten everywhere.
MenuNavigate(url) ==
    /\ menuPage.url \in MenuUrls
    /\ menuHist.navs < MaxMenuNav
    /\ url # menuPage.url
    /\ LET stay == IF MenuVendorCode(url) = MenuVendorCode(menuPage.url)
                   THEN menuPage.cards ELSE {}
       IN /\ menuPage' = [url |-> url, cards |-> stay]
          /\ processedProducts' = processedProducts \cap stay
          /\ cardMarks' = [card \in MenuCards |-> IF card \in stay THEN cardMarks[card] ELSE "none"]
          /\ menuState' = [menuState EXCEPT !.domCache.cards = KeepCards(@, stay)]
          /\ menuQueue' = [i \in 1..Len(menuQueue) |->
                            [menuQueue[i] EXCEPT !.productCards = KeepCards(@, stay)]]
    /\ menuHist' = [menuHist EXCEPT !.navs = @ + 1]
    /\ UNCHANGED <<menuTimers, menuRequests>>
    /\ UNCHANGED notMenu

\* the host application adds a product card of the menu shown; every
\* active observer clears the DOM cache and calls debouncedProcessProducts
MenuAddCard(card) ==
    /\ menuPage.url \in MenuUrls
    /\ card \in MenuCardsOf(MenuVendorCode(menuPage.url)) \ menuPage.cards
    /\ menuPage' = [menuPage EXCEPT !.cards = @ \cup {card}]
    /\ IF menuState.activeObservers > 0
       THEN /\ menuState' = [menuState EXCEPT !.domCache = NoDomCache]
            /\ menuTimers' = [menuTimers EXCEPT !.debounce = TRUE]
       ELSE UNCHANGED <<menuState, menuTimers>>
    /\ UNCHANGED <<processedProducts, cardMarks, menuQueue, menuRequests, menuHist>>
    /\ UNCHANGED notMenu

\* throttledNavigationCheck finds a new url
MenuNavigationCheck ==
    /\ menuPage.url \in MenuUrls
    /\ menuPage.url # menuState.lastUrl
    /\ menuState' = [menuState EXCEPT !.lastUrl = menuPage.url]
    /\ menuTimers' = [menuTimers EXCEPT !.reinit = TRUE]
    /\ UNCHANGED <<menuPage, processedProducts, cardMarks, menuQueue, menuRequests, menuHist>>
    /\ UNCHANGED notMenu

\* reinitialize 800 ms after the check, later than the 300 ms timeout of
\* the reinitialize before: cleanupAll takes the marks off the cards,
\* state.reset empties comparisonData and the DOM cache and leaves the
\* observers and processedProducts, initSnappFoodMenu is scheduled
MenuReinitialize ==
    /\ menuTimers.reinit
    /\ ~menuTimers.init
    /\ cardMarks' = [card \in MenuCards |-> "none"]
    /\ menuState' = [menuState EXCEPT !.comparisonData = NoComparisonData, !.domCache = NoDomCache]
    /\ menuTimers' = [menuTimers EXCEPT !.reinit = FALSE, !.init = TRUE]
    /\ menuHist' = [menuHist EXCEPT !.epoch = @ + 1]
    /\ UNCHANGED <<menuPage, processedProducts, menuQueue, menuRequests>>
    /\ UNCHANGED notMenu

\* initSnappFoodMenu: fetchPrices is sent for the vendor of the url
InitSnappFoodMenu ==
    /\ menuTimers.init
    /\ menuTimers' = [menuTimers EXCEPT !.init = FALSE]
    /\ menuRequests' = menuRequests \cup
           {[vendor |-> MenuVendorCode(menuPage.url), epoch |-> menuHist.epoch]}
    /\ UNCHANGED <<menuPage, menuState, processedProducts, cardMarks, menuQueue, menuHist>>
    /\ UNCHANGED notMenu

\* the callback of fetchPrices: a failure is dropped; a success is stored,
\* injectSnappFoodComparisons queues a pass over the cached card list and
\* setupOptimizedObserver adds an observer
FetchPricesReply(req, success) ==
    /\ req \in menuRequests
    /\ menuRequests' = menuRequests \ {req}
    /\ IF ~success
       THEN UNCHANGED <<menuState, menuQueue>>
       ELSE LET domCache == DomCacheGet(menuState.domCache, menuPage.cards)
            IN /\ menuState' = [menuState EXCEPT !.comparisonData = ComparisonDataOf(req),
                                                 !.domCache = domCache,
                                                 !.activeObservers = @ + 1]
               /\ menuQueue' = Append(menuQueue, [productCards |-> domCache.cards, startIndex |-> 0])
    /\ UNCHANGED <<menuPage, processedProducts, cardMarks, menuTimers, menuHist>>
    /\ UNCHANGED notMenu

\* debouncedProcessProducts fires: injectSnappFoodComparisons
ProcessProductsFires ==
    /\ menuTimers.debounce
    /\ menuTimers' = [menuTimers EXCEPT !.debounce = FALSE]
    /\ LET domCache == DomCacheGet(menuState.domCache, menuPage.cards)
       IN /\ menuState' = [menuState EXCEPT !.domCache = domCache]
          /\ menuQueue' = Append(menuQueue, [productCards |-> domCache.cards, startIndex |-> 0])
    /\ UNCHANGED <<menuPage, processedProducts, cardMarks, menuRequests, menuHist>>
    /\ UNCHANGED notMenu

\* the host is idle: the first queued slice runs
ProductChunkRuns ==
    /\ menuQueue # <<>>
    /\ LET done == ProductChunk(Head(menuQueue), processedProducts, cardMarks,
                                menuState.comparisonData)
       IN /\ processedProducts' = done.processed
          /\ cardMarks' = done.marks
          /\ menuQueue' = Tail(menuQueue) \o done.more
    /\ UNCHANGED <<menuPage, menuState, menuTimers, menuRequests, menuHist>>
    /\ UNCHANGED notMenu

MenuNext ==
    \/ \E url \in MenuUrls : MenuNavigate(url)
    \/ \E card \in MenuCards : MenuAddCard(card)
    \/ MenuNavigationCheck
    \/ MenuReinitialize
    \/ InitSnappFoodMenu
    \/ \E req \in menuRequests, success \in BOOLEAN : FetchPricesReply(req, success)
    \/ ProcessProductsFires
    \/ ProductChunkRuns

(***************************************************************************)
(* A PerformanceCache instance under an arbitrary sequence of calls        *)
(***************************************************************************)
NoSet == [set |-> FALSE, val |-> Null, time |-> 0]

NoCall == [op |-> "new", key |-> 0, ret |-> Null]

InsEmpty == [ok |-> TRUE, seq |-> <<>>, obs |-> FALSE]

CacheInit ==
    /\ impl \in {"bg", "cs"}
    /\ \E n \in 1..MaxCap :
          IF impl = "bg"
          THEN \E t \in 1..MaxTTL : inst = BgNew(n, t)
          ELSE inst = CsNew(n)
    /\ now = 0
    /\ steps = 0
    /\ last = NoCall
    /\ named = [keys |-> 0, vals |-> 0]
    /\ lastSet = [k \in Keys |-> NoSet]
    /\ usedAfter = [k \in Keys |-> {}]
    /\ useOrder = <<>>
    /\ ins = InsEmpty
    /\ ReconIdle
    /\ RateIdle
    /\ CmpIdle
    /\ FetchIdle
    /\ ListIdle
    /\ LookupIdle
    /\ RankIdle
    /\ SearchIdle
    /\ RatingIdle
    /\ TreeIdle
    /\ MenuIdle

\* history of a set(key, data) that left the store as newCache
HistSet(key, data, newCache) ==
    /\ lastSet' = [lastSet EXCEPT ![key] = [set |-> TRUE, val |-> data, time |-> now]]
    /\ usedAfter' = [k \in Keys |-> IF k = key \/ ~lastSet[k].set THEN {}
                                     ELSE usedAfter[k] \cup {key}]
    /\ useOrder' = SeqRestrict(Append(SeqRemove(useOrder, key), key), KeySet(newCache))
    /\ ins' = IF ins.ok /\ \A i \in 1..Len(ins.seq) : ins.seq[i].key # key
              THEN [ok |-> TRUE, obs |-> FALSE,
                    seq |-> Append(ins.seq, [key |-> key, data |-> data, time |-> now])]
              ELSE [ok |-> FALSE, seq |-> <<>>, obs |-> FALSE]

\* history of a get(key) that returned ret and left the store as newCache
HistGet(key, ret, newCache) ==
    /\ lastSet' = lastSet
    /\ usedAfter' = IF ret # Null
                    THEN [k \in Keys |-> IF k = key \/ ~lastSet[k].set THEN usedAfter[k]
                                         ELSE usedAfter[k] \cup {key}]
                    ELSE usedAfter
    /\ useOrder' = SeqRestrict(IF ret # Null
                               THEN Append(SeqRemove(useOrder, key), key)
                               ELSE useOrder, KeySet(newCache))
    /\ ins' = [ok |-> FALSE,
               seq |-> IF ins.ok /\ Len(ins.seq) = inst.maxSize + 1 THEN ins.seq ELSE <<>>,
               obs |-> ins.ok /\ Len(ins.seq) = inst.maxSize + 1]

\* one more call or clock tick, up to the bound of the model
Step ==
    /\ steps < MaxSteps
    /\ steps' = steps + 1

\* Keys and values are opaque to the cache: a call names a key (a value)
\* already named or the next new one
NameKey(key) ==
    /\ Step
    /\ key <= named.keys + 1
    /\ named' = [named EXCEPT !.keys = IF key > @ THEN key ELSE @]

NameKeyVal(key, val) ==
    /\ Step
    /\ key <= named.keys + 1
    /\ val <= named.vals + 1
    /\ named' = [keys |-> IF key > named.keys THEN key ELSE named.keys,
                  vals |-> IF val > named.vals THEN val ELSE named.vals]

HistClear ==
    /\ lastSet' = [k \in Keys |-> NoSet]
    /\ usedAfter' = [k \in Keys |-> {}]
    /\ useOrder' = <<>>
    /\ ins' = InsEmpty

BgGetCall(key) ==
    /\ impl = "bg"
    /\ NameKey(key)
    /\ LET r == BgGet(inst, key, now)
       IN /\ inst' = r.obj
          /\ last' = [op |-> "get", key |-> key, ret |-> r.ret]
          /\ HistGet(key, r.ret, r.obj.cache)
    /\ UNCHANGED <<impl, now>>
    /\ UNCHANGED notCache

BgSetCall(key, data) ==
    /\ impl = "bg"
    /\ NameKeyVal(key, data)
    /\ LET c == BgSet(inst, key, data, now)
       IN /\ inst' = c
          /\ last' = [op |-> "set", key |-> key, ret |-> Null]
          /\ HistSet(key, data, c.cache)
    /\ UNCHANGED <<impl, now>>
    /\ UNCHANGED notCache

BgClearCall ==
    /\ impl = "bg"
    /\ inst' = BgClear(inst)
    /\ last' = [op |-> "clear", key |-> 0, ret |-> Null]
    /\ Step
    /\ HistClear
    /\ UNCHANGED <<impl, now, named>>
    /\ UNCHANGED notCache

BgCleanupCall ==
    /\ impl = "bg"
    /\ LET r == BgCleanup(inst, now)
       IN /\ inst' = r.obj
          /\ last' = [op |-> "cleanup", key |-> 0, ret |-> r.ret]
          /\ useOrder' = SeqRestrict(useOrder, KeySet(r.obj.cache))
    /\ Step
    /\ ins' = [ok |-> FALSE, seq |-> <<>>, obs |-> FALSE]
    /\ UNCHANGED <<impl, now, named, lastSet, usedAfter>>
    /\ UNCHANGED notCache

CsGetCall(key) ==
    /\ impl = "cs"
    /\ NameKey(key)
    /\ LET r == CsGet(inst, key)
       IN /\ inst' = r.obj
          /\ last' = [op |-> "get", key |-> key, ret |-> r.ret]
          /\ HistGet(key, r.ret, r.obj.cache)
    /\ UNCHANGED <<impl, now>>
    /\ UNCHANGED notCache

CsSetCall(key, value) ==
    /\ impl = "cs"
    /\ NameKeyVal(key, value)
    /\ LET c == CsSet(inst, key, value)
       IN /\ inst' = c
          /\ last' = [op |-> "set", key |-> key, ret |-> Null]
          /\ HistSet(key, value, c.cache)
    /\ UNCHANGED <<impl, now>>
    /\ UNCHANGED notCache

CsClearCall ==
    /\ impl = "cs"
    /\ inst' = CsClear(inst)
    /\ last' = [op |-> "clear", key |-> 0, ret |-> Null]
    /\ Step
    /\ HistClear
    /\ UNCHANGED <<impl, now, named>>
    /\ UNCHANGED notCache

\* time passes
Tick ==
    /\ Step
    /\ now' = now + 1
    /\ last' = [op |-> "tick", key |-> 0, ret |-> Null]
    /\ ins' = [ins EXCEPT !.obs = FALSE]
    /\ UNCHANGED <<impl, inst, named, lastSet, usedAfter, useOrder>>
    /\ UNCHANGED notCache

CacheNext ==
    \/ \E k \in Keys : BgGetCall(k)
    \/ \E k \in Keys, d \in Vals : BgSetCall(k, d)
    \/ BgClearCall
    \/ BgCleanupCall
    \/ \E k \in Keys : CsGetCall(k)
    \/ \E k \in Keys, d \in Vals : CsSetCall(k, d)
    \/ CsClearCall
    \/ Tick

SpecCache == CacheInit /\ [][CacheNext]_vars

\* the cache instance of the cache specification while the content script runs
CacheIdle ==
    /\ impl = "cs"
    /\ inst = CsNew(1)
    /\ now = 0
    /\ steps = 0
    /\ last = NoCall
    /\ named = [keys |-> 0, vals |-> 0]
    /\ lastSet = [k \in Keys |-> NoSet]
    /\ usedAfter = [k \in Keys |-> {}]
    /\ useOrder = <<>>
    /\ ins = InsEmpty

ReconInit == ContentInit /\ CacheIdle /\ RateIdle /\ CmpIdle /\ FetchIdle /\ ListIdle /\ LookupIdle /\ RankIdle /\ SearchIdle /\ RatingIdle /\ TreeIdle /\ MenuIdle

SpecRecon == ReconInit /\ [][ReconNext]_vars

(***************************************************************************)
(* Claims about the cache store                                            *)
(***************************************************************************)
StoredPairs(m) == [i \in 1..Len(m) |-> <<m[i].key, m[i].data>>]

InsertedPairs(q) == [i \in 1..Len(q) |-> <<q[i].key, q[i].data>>]

\* C1: a get of a key before the TTL has elapsed since its last set, and
\* before as many other distinct keys as the capacity were set (or hit)
\* after that set, returns the value of that last set.
ClaimC1 ==
    (/\ impl = "bg"
     /\ last.op = "get"
     /\ lastSet[last.key].set
     /\ now < lastSet[last.key].time + inst.ttl
     /\ Cardinality(usedAfter[last.key]) < inst.maxSize)
    => last.ret = lastSet[last.key].val

\* C2: get returns the entry of a key iff the key is stored and now < expiry,
\* where expiry = time of the last set of the key + TTL; a get at or after
\* the expiry returns null, removes the entry, counts a miss and no hit.
TheoremC2 ==
    [][(impl = "bg" /\ last'.op = "get") =>
        LET k == last'.key
            i == IndexOf(inst.cache, k)
        IN /\ (last'.ret # Null) <=> (i # 0 /\ now < inst.cache[i].expiry)
           /\ i # 0 => /\ lastSet[k].set
                        /\ inst.cache[i].expiry = lastSet[k].time + inst.ttl
           /\ (i # 0 /\ now < inst.cache[i].expiry) =>
                 /\ last'.ret = inst.cache[i].data
                 /\ inst'.hitCount = inst.hitCount + 1
                 /\ inst'.missCount = inst.missCount
           /\ (i # 0 /\ now >= inst.cache[i].expiry) =>
                 /\ last'.ret = Null
                 /\ ~MapHas(inst'.cache, k)
                 /\ inst'.missCount = inst.missCount + 1
                 /\ inst'.hitCount = inst.hitCount
      ]_vars

\* a get found its key stored but expired
WitnessC2 ==
    /\ impl = "bg"
    /\ last.op = "get"
    /\ last.ret = Null
    /\ lastSet[last.key].set
    /\ usedAfter[last.key] = {}
    /\ now >= lastSet[last.key].time + inst.ttl
    /\ inst.missCount > 0

\* C3: a set of a new key on a full cache evicts exactly one entry, the
\* least recently used one, where every hit of get and every set (also an
\* overwriting set) makes its key the most recently used.
ClaimC3 ==
    [][(/\ last'.op = "set"
        /\ ~MapHas(inst.cache, last'.key)
        /\ Len(inst.cache) = inst.maxSize) =>
        KeySet(inst'.cache) = (KeySet(inst.cache) \ {Head(useOrder)}) \cup {last'.key}
      ]_vars

\* C4: after maxSize + 1 distinct keys were set into an empty cache with no
\* get in between, the store holds the last maxSize of them with their
\* values and not the first; a get that follows returns null for the first
\* key and the value set for a kept key that has not expired.
TheoremC4 ==
    /\ (ins.ok /\ Len(ins.seq) = inst.maxSize + 1) =>
          StoredPairs(inst.cache) = Tail(InsertedPairs(ins.seq))
    /\ (ins.obs /\ last.op = "get") =>
          /\ last.key = ins.seq[1].key => last.ret = Null
          /\ \A i \in 2..Len(ins.seq) :
                (/\ last.key = ins.seq[i].key
                 /\ impl = "bg" => now < ins.seq[i].time + inst.ttl)
                => last.ret = ins.seq[i].data

\* capacity 2: set(A), set(B), set(C), then get(A) is absent
WitnessC4 ==
    /\ ins.obs
    /\ last.op = "get"
    /\ inst.maxSize = 2
    /\ last.key = ins.seq[1].key
    /\ last.ret = Null


(***************************************************************************)
(* Claims about the reconciliation of vendor cards                         *)
(***************************************************************************)
AppliedIds(h) == [i \in 1..Len(h.applied) |-> h.applied[i].uid]

NoDuplicates(s) == \A i, j \in 1..Len(s) : s[i] = s[j] => i = j

\* the containers decorated in the current epoch for a vendor code
DecoratedOf(code) ==
    {hist.applied[i].cont :
        i \in {j \in 1..Len(hist.applied) : hist.applied[j].uid[1] = code}}

\* C5: of the candidates of one epoch that share the VendorCode of a paired
\* vendor, not more than one is decorated in that epoch, over all passes of
\* the epoch and every order of enumeration
ClaimC5 ==
    \A code \in state.pairedVendors : Cardinality(DecoratedOf(code)) <= 1

Qualifies(st, link) ==
    \/ extractVendorCodeFromUrl(link) \in st.pairedVendors
    \/ (ContRating(findBestContainer(link)) # Null
        /\ ContRating(findBestContainer(link)) >= RATING_THRESHOLD)

KeyOf(st, link) ==
    UniqueId(extractVendorCodeFromUrl(link),
             ContRating(findBestContainer(link)),
             extractVendorCodeFromUrl(link) \in st.pairedVendors,
             ContRating(findBestContainer(link)) # Null
                 /\ ContRating(findBestContainer(link)) >= RATING_THRESHOLD)

NewlyApplied == SubSeq(hist'.applied, Len(hist.applied) + 1, Len(hist'.applied))

DerivedStateCleared(st) ==
    /\ st.processedVendors = {}
    /\ st.processedElements = {}
    /\ st.comparisonData = {}
    /\ st.vendorInfo = {}
    /\ st.vendorList = {}
    /\ st.pairedVendors = {}
    /\ st.ratingCache.cache = <<>>

ClaimC9 ==
    \A i \in 1..Len(idleQueue) : idleQueue[i].start > 0 => Len(idleQueue) = 1

RECURSIVE SeqSum(_)
SeqSum(s) == IF s = <<>> THEN 0 ELSE Head(s) + SeqSum(Tail(s))

\* a pass so far: the visited links are a prefix of the snapshot, slice by
\* slice, each slice of at least one and at most VENDOR_CHUNK_SIZE links
PassInOrder(p) ==
    /\ p.visited = SubSeq(p.links, 1, Len(p.visited))
    /\ SeqSum(p.slices) = Len(p.visited)
    /\ \A i \in 1..Len(p.slices) : p.slices[i] \in 1..VENDOR_CHUNK_SIZE

\* C10: a pass visits its snapshot in order in slices of at most the chunk
\* size, it is over exactly when the whole snapshot was visited, and links
\* added to the document later do not enter the snapshot of a running pass
TheoremC10 ==
    [][/\ \A i \in 1..Len(idleQueue') :
              /\ PassInOrder(idleQueue'[i])
              /\ Len(idleQueue'[i].visited) < Len(idleQueue'[i].links)
       /\ PassInOrder(hist'.done)
       /\ hist'.done.visited = hist'.done.links
       /\ RunIdleCallback =>
              \/ /\ hist'.done # hist.done \/ idleQueue' = Tail(idleQueue)
                 /\ hist'.done.links = Head(idleQueue).links
                 /\ idleQueue' = Tail(idleQueue)
              \/ /\ hist'.done = hist.done
                 /\ Len(idleQueue') = Len(idleQueue)
                 /\ idleQueue'[Len(idleQueue')].links = Head(idleQueue).links
                 /\ Len(idleQueue'[Len(idleQueue')].visited)
                        > Len(Head(idleQueue).visited)
       /\ (doc' # doc) => (idleQueue' = idleQueue /\ hist'.done = hist.done)]_vars

\* a pass of more than one slice has ended with its whole snapshot visited
WitnessC10 ==
    /\ Len(hist.done.slices) >= 2
    /\ Len(hist.done.links) >= 2
    /\ hist.done.visited = hist.done.links


\* C11: the epoch reset empties the decoration keys, the processed
\* containers and the container-resolution memo
ClaimC11 ==
    [][(hist'.epoch # hist.epoch)
          => /\ state'.processedVendors = {}
             /\ state'.processedElements = {}
             /\ containerCache' = {}]_vars


(***************************************************************************)
(* Claims about debounce and throttle                                      *)
(***************************************************************************)
RateStart == RateInit /\ CacheIdle /\ ReconIdle /\ CmpIdle /\ FetchIdle /\ ListIdle /\ LookupIdle /\ RankIdle /\ SearchIdle /\ RatingIdle /\ TreeIdle /\ MenuIdle

SpecRate == RateStart /\ [][RateNext]_vars

\* the invocations stop where the horizon of the model ends, and the host
\* runs due timeouts and lets time pass
SpecRateFair ==
    /\ RateStart
    /\ [][RateNext]_vars
    /\ WF_vars(DebounceLater)
    /\ WF_vars(ThrottleTimeout)
    /\ WF_vars(ClockTick)

\* C12: the debounced function runs only when DebounceWait has elapsed since
\* the most recent invocation, with the arguments of that invocation, once
\* per invocation that was followed by such a quiet period, and it has run
\* by the time the quiet period is over
TheoremC12 ==
    [][/\ (rlog'.druns # rlog.druns)
              => /\ rlog.dlast # NoInvocation
                 /\ rlog.dlast.ran = 0
                 /\ clock >= rlog.dlast.t + DebounceWait
                 /\ rlog'.druns = Append(rlog.druns,
                                         [t |-> clock, args |-> rlog.dlast.args])
       /\ (rlog'.dlast # NoInvocation /\ clock' > rlog'.dlast.t + DebounceWait)
              => rlog'.dlast.ran = 1]_vars

\* the function has run for the second of two invocations of a burst and
\* not for the first
WitnessC12 ==
    /\ Len(rlog.druns) = 1
    /\ rlog.dlast.ran = 1
    /\ rlog.dlast.t > 1
    /\ rlog.druns[1].t = rlog.dlast.t + DebounceWait
    /\ rlog.druns[1].args = rlog.dlast.args


LastRun(runs) == runs[Len(runs)]

\* C13: the first call of the throttled wrapper runs the function at once
\* with its arguments, and a run is at least ThrottleLimit after the run
\* before it
TheoremC13 ==
    [][/\ (rlog.tlast = NoInvocation /\ rlog'.tlast # NoInvocation)
              => rlog'.truns = <<[t |-> clock, args |-> rlog'.tlast.args]>>
       /\ (rlog'.truns # rlog.truns /\ rlog.truns # <<>>)
              => /\ Len(rlog'.truns) = Len(rlog.truns) + 1
                 /\ LastRun(rlog'.truns).t - LastRun(rlog.truns).t >= ThrottleLimit]_vars

\* the function has run at the first call and once more later
WitnessC13 ==
    /\ Len(rlog.truns) >= 2
    /\ rlog.truns[1].t = 1
    /\ rlog.truns[2].t >= rlog.truns[1].t + ThrottleLimit

\* C14: a call that arrives before ThrottleLimit has elapsed since the last
\* run is followed by one more run, exactly at the interval boundary and
\* with the arguments of the most recent call
TheoremC14 ==
    /\ [][(Cardinality(thr'.timers) < Cardinality(thr.timers)
             /\ rlog.tlast.t < thr.lastRan + ThrottleLimit)
            => /\ rlog.tlast.ran = 0
               /\ rlog'.tlast = [rlog.tlast EXCEPT !.ran = 1]
               /\ clock = thr.lastRan + ThrottleLimit
               /\ rlog'.truns = Append(rlog.truns,
                                       [t |-> clock, args |-> rlog.tlast.args])]_vars
    /\ (rlog.tlast # NoInvocation /\ rlog.tlast.ran = 0)
           ~> (rlog.tlast.ran = 1)

\* the trailing run has happened at the boundary for a call that arrived
\* mid-interval after another mid-interval call with other arguments
WitnessC14 ==
    /\ Len(rlog.truns) = 2
    /\ rlog.tlast.ran = 1
    /\ rlog.tlast.t > rlog.truns[1].t
    /\ rlog.tlast.t < rlog.truns[1].t + ThrottleLimit
    /\ rlog.truns[2] = [t |-> rlog.truns[1].t + ThrottleLimit, args |-> rlog.tlast.args]
    /\ rlog.truns[2].args # rlog.truns[1].args


(***************************************************************************)
(* Claims about processAndCompare                                          *)
(***************************************************************************)
CmpStart == CmpInit /\ CacheIdle /\ ReconIdle /\ RateIdle /\ FetchIdle /\ ListIdle /\ LookupIdle /\ RankIdle /\ SearchIdle /\ RatingIdle /\ TreeIdle /\ MenuIdle

SpecCompare == CmpStart /\ [][CmpNext]_vars

BaseOf(in) == IF in.sourcePlatform = "snappfood" THEN in.sfProducts ELSE in.tfProducts

CounterpartOf(in) == IF in.sourcePlatform = "snappfood" THEN in.tfProducts ELSE in.sfProducts

\* the mapping maps base key b to a counterpart id that is a key of the
\* counterpart collection
MappedAndPresent(in, b) ==
    /\ b \in DOMAIN in.itemMappings
    /\ ToKey(in.itemMappings[b]) \in DOMAIN CounterpartOf(in)

\* C15: the output has a record for base id b exactly when the mapping maps
\* b to a counterpart id that is a key of the counterpart collection and the
\* base price is above zero
ClaimC15 ==
    cmpOut.done =>
        \A b \in DOMAIN BaseOf(cmpIn) :
            (b \in DOMAIN cmpOut.results)
                <=> (MappedAndPresent(cmpIn, b) /\ BaseOf(cmpIn)[b].price > 0)

\* C16: no record of the output has a base product with a price of zero or
\* below, and every base id with such a price is absent from the output
TheoremC16 ==
    cmpOut.done =>
        /\ \A b \in DOMAIN cmpOut.results :
               /\ cmpOut.results[b].baseProduct = BaseOf(cmpIn)[b]
               /\ cmpOut.results[b].baseProduct.price > 0
        /\ \A b \in DOMAIN BaseOf(cmpIn) :
               BaseOf(cmpIn)[b].price <= 0 => b \notin DOMAIN cmpOut.results

\* a mapped base product with price zero, whose counterpart is there, is
\* absent from the output
WitnessC16 ==
    /\ cmpOut.done
    /\ \E b \in DOMAIN BaseOf(cmpIn) :
           /\ BaseOf(cmpIn)[b].price = 0
           /\ MappedAndPresent(cmpIn, b)
           /\ Truthy(cmpIn.itemMappings[b])
           /\ b \notin DOMAIN cmpOut.results

Count(flags) == Cardinality({i \in 1..Len(flags) : flags[i]})

\* C17: in every record exactly one of the three flags is true, chosen by
\* the sign of priceDiff
TheoremC17 ==
    cmpOut.done =>
        \A b \in DOMAIN cmpOut.results :
            LET r == cmpOut.results[b]
            IN /\ Count(<<r.isCheaper, r.isMoreExpensive, r.isSamePrice>>) = 1
               /\ r.isCheaper <=> r.priceDiff > 0
               /\ r.isMoreExpensive <=> r.priceDiff < 0
               /\ r.isSamePrice <=> r.priceDiff = 0

\* the output has a record with isSamePrice and a record with
\* isMoreExpensive
WitnessC17 ==
    /\ cmpOut.done
    /\ \E b, c \in DOMAIN cmpOut.results :
           cmpOut.results[b].isSamePrice /\ cmpOut.results[c].isMoreExpensive

\* C18: priceDiff is base price minus counterpart price, and percentDiff is
\* a non-negative integer nearest to |priceDiff| / basePrice * 100
TheoremC18 ==
    cmpOut.done =>
        \A b \in DOMAIN cmpOut.results :
            LET r == cmpOut.results[b]
                base == BaseOf(cmpIn)[b].price
                cp == r.counterpartProduct.price
            IN /\ r.counterpartProduct =
                      CounterpartOf(cmpIn)[ToKey(cmpIn.itemMappings[b])]
               /\ r.priceDiff = base - cp
               /\ r.percentDiff \in Nat
               /\ 2 * Abs(r.percentDiff * base - 100 * Abs(r.priceDiff)) <= base
               /\ (base = 100 /\ cp = 80)
                      => (r.priceDiff = 20 /\ r.percentDiff = 20 /\ r.isCheaper)

\* base 100 against counterpart 80
WitnessC18 ==
    /\ cmpOut.done
    /\ \E b \in DOMAIN cmpOut.results :
           /\ cmpOut.results[b].baseProduct.price = 100
           /\ cmpOut.results[b].counterpartProduct.price = 80
           /\ cmpOut.results[b].percentDiff = 20


(***************************************************************************)
(* Claims about the fetchPrices handler and getVendorData                  *)
(***************************************************************************)
FetchStart == FetchInit /\ CacheIdle /\ ReconIdle /\ RateIdle /\ CmpIdle /\ ListIdle /\ LookupIdle /\ RankIdle /\ SearchIdle /\ RatingIdle /\ TreeIdle /\ MenuIdle

SpecFetch == FetchStart /\ [][FetchNext]_vars


BothResolved == lookup.sf.state = "resolved" /\ lookup.tf.state = "resolved"

\* C19: the two product lookups are issued together; the reply is a success
\* with the comparison data exactly when both resolved to products, a failure
\* without data when either resolved to null, whichever resolved first; no
\* reply is sent while a lookup is pending
TheoremC19 ==
    /\ (lookup.sf.state = "idle") <=> (lookup.tf.state = "idle")
    /\ handler = "lookups" => reply = NoReply /\ ~BothResolved
    /\ handler = "replied" =>
           /\ lookup.sf.state # "idle" =>
                  /\ BothResolved
                  /\ flog.order \in {<<"sf", "tf">>, <<"tf", "sf">>}
           /\ reply.success <=>
                  (BothResolved /\ ~lookup.sf.isNull /\ ~lookup.tf.isNull)
           /\ reply.success =>
                  /\ reply.hasData
                  /\ reply.data = processAndCompare(lookup.sf.products, lookup.tf.products,
                                                    request.sourcePlatform, ItemMappings)
           /\ ~reply.success => ~reply.hasData /\ reply.data = <<>>

\* the TapsiFood lookup resolved first, to products, the SnappFood lookup
\* then resolved to null: the reply is a failure
WitnessC19 ==
    /\ handler = "replied"
    /\ flog.order = <<"tf", "sf">>
    /\ lookup.sf.isNull
    /\ ~lookup.tf.isNull
    /\ lookup.tf.products # <<>>
    /\ ~reply.success
    /\ ~reply.hasData

InGetVendorData == handler \in {"getVendorData", "retryDelay"}

\* C20: one call of getVendorData makes at most RETRY_ATTEMPTS lookups; a
\* further attempt follows only a timeout or a connection failure, after a
\* delay of min(1000 * attempt, 3000) that grows from retry to retry; a
\* success, a 404, another non-2xx status or any other failure ends the loop,
\* and the last lookup's result is what the call returns
TheoremC20 ==
    LET n == Len(flog.outcomes)
    IN /\ flog.lookups <= RETRY_ATTEMPTS
       /\ flog.lookups = attempt
       /\ flog.lookups = IF handler = "getVendorData" THEN n + 1 ELSE n
       /\ \A i \in 1..n :
              /\ i < flog.lookups => flog.outcomes[i] \in {"timeout", "network"}
              /\ flog.outcomes[i] \in {"ok", "notFound", "upstream", "badBody"} =>
                     i = n /\ ~InGetVendorData
       /\ Len(flog.delays) = IF handler = "retryDelay" THEN n
                             ELSE IF flog.lookups = 0 THEN 0 ELSE flog.lookups - 1
       /\ \A i \in 1..Len(flog.delays) :
              /\ flog.delays[i] = RetryDelay(i)
              /\ i > 1 => flog.delays[i] > flog.delays[i - 1]
       /\ (n > 0 /\ ~InGetVendorData) =>
              /\ apiResult = fetchFromAPI(flog.outcomes[n])
              /\ apiResult.success <=> flog.outcomes[n] = "ok"

\* the first lookup timed out, the retry after 1000 ms succeeded and its
\* result was returned
WitnessC20 ==
    /\ flog.outcomes = <<"timeout", "ok">>
    /\ flog.delays = <<1000>>
    /\ apiResult.success
    /\ handler = "lookups"


(***************************************************************************)
(* Claims about the getVendorList handler and the popup                    *)
(***************************************************************************)
ListStart == ListInit /\ CacheIdle /\ ReconIdle /\ RateIdle /\ CmpIdle /\ FetchIdle /\ LookupIdle /\ RankIdle /\ SearchIdle /\ RatingIdle /\ TreeIdle /\ MenuIdle

SpecList == ListStart /\ [][ListNext]_vars

\* C21: a lookup whose result is a timeout or a connection failure made
\* more than one attempt before that result was passed on
ClaimC21 ==
    \A which \in {"stats", "vendors"} :
        (/\ getList[which].state = "done"
         /\ getList[which].result.isTimeout \/ getList[which].result.isConnectionError)
            => getList[which].fetches >= 2

VendorsUnreachable ==
    /\ getList.vendors.state = "done"
    /\ getList.vendors.result.isConnectionError

\* C29: when the vendor-list lookup failed because the server is unreachable,
\* the handler's reply is a failure that says so, and the popup that got the
\* reply has apiConnectionStatus 'error'
ClaimC29 ==
    /\ (listReply # NoListReply /\ VendorsUnreachable) =>
           ~listReply.success /\ listReply.isConnectionError
    /\ (popup.pc = "loaded" /\ popup.via # "cache" /\ VendorsUnreachable) =>
           popup.apiConnectionStatus = "error"


(***************************************************************************)
(* Claims about the timeout of a network-backed lookup                     *)
(***************************************************************************)
LookupStart == LookupInit /\ CacheIdle /\ ReconIdle /\ RateIdle /\ CmpIdle /\ FetchIdle /\ ListIdle /\ RankIdle /\ SearchIdle /\ RatingIdle /\ TreeIdle /\ MenuIdle

SpecLookup == LookupStart /\ [][LookupNext]_vars

\* C22: a lookup is not under way, in either phase, beyond REQUEST_TIMEOUT
\* after its start, and a lookup that ended for timeout returned to its
\* caller something other than what a connection failure returns
ClaimC22 ==
    /\ net.phase \in {"headers", "body"} => tclock - net.started <= REQUEST_TIMEOUT
    /\ (net.phase = "done" /\ net.cause = "timeout") =>
           /\ net.result = Returned(net.kind, "timeout")
           /\ Returned(net.kind, "timeout") # Returned(net.kind, "network")


(***************************************************************************)
(* The capacity of PerformanceCache                                        *)
(***************************************************************************)
\* C30: after any sequence of set, get, clear and cleanup calls on a cache
\* of capacity N >= 1 the store holds at most N entries
TheoremC30 == inst.maxSize >= 1 => Len(inst.cache) <= inst.maxSize

\* capacity 2: the third set of a new key in a row left the store full
WitnessC30 ==
    /\ inst.maxSize = 2
    /\ last.op = "set"
    /\ ins.ok
    /\ Len(ins.seq) = 3
    /\ Len(inst.cache) = 2


(***************************************************************************)
(* Claims about the ranking of search results                              *)
(***************************************************************************)
RankStart == RankInit /\ CacheIdle /\ ReconIdle /\ RateIdle /\ CmpIdle /\ FetchIdle /\ ListIdle /\ LookupIdle /\ SearchIdle /\ RatingIdle /\ TreeIdle /\ MenuIdle

SpecRank == RankStart /\ [][RankNext]_vars

CharsOf(str) == {str[i] : i \in 1..Len(str)}

\* no character of the query is in the text, whatever the case or letter form
NothingInCommon(query, text) ==
    CharsOf(normalizeText(query)) \cap CharsOf(normalizeText(text)) = {}

RankScore(i) == SearchScore(rankIn.query, SearchableText(rankIn.data[i], TRUE))

RankedIndexes == {rankOut.results[j].index : j \in 1..Len(rankOut.results)}

\* C24: a record whose searchable text has no character in common with the
\* (non-empty) query has a score at or below the threshold and is not in the
\* result
ClaimC24 ==
    rankOut.done =>
        \A i \in 1..Len(rankIn.data) :
            NothingInCommon(rankIn.query, SearchableText(rankIn.data[i], TRUE)) =>
                /\ RankScore(i) <= 5
                /\ i \notin RankedIndexes

\* C25: the ranking of a non-empty query holds exactly the records whose
\* score is above the threshold, once each, by descending score, and records
\* of equal score in the order of the data set
TheoremC25 ==
    rankOut.done =>
        /\ RankedIndexes = {i \in 1..Len(rankIn.data) : RankScore(i) > 5}
        /\ Cardinality(RankedIndexes) = Len(rankOut.results)
        /\ \A j \in 1..Len(rankOut.results) :
               rankOut.results[j].searchScore = RankScore(rankOut.results[j].index)
        /\ \A j, k \in 1..Len(rankOut.results) :
               j < k =>
                   /\ rankOut.results[j].searchScore >= rankOut.results[k].searchScore
                   /\ rankOut.results[j].searchScore = rankOut.results[k].searchScore
                          => rankOut.results[j].index < rankOut.results[k].index

\* three records ranked: the last of the data set, of the highest score,
\* comes first, then two of one score in the order of the data set
WitnessC25 ==
    /\ rankOut.done
    /\ Len(rankIn.data) = 3
    /\ Len(rankOut.results) = 3
    /\ rankOut.results[1].index = 3
    /\ rankOut.results[2].index = 1
    /\ rankOut.results[3].index = 2
    /\ rankOut.results[1].searchScore > rankOut.results[2].searchScore
    /\ rankOut.results[2].searchScore = rankOut.results[3].searchScore


\* the other letter form and the other letter case of a character
Equivalents(c) ==
    CASE c = "y1" -> {"y2"}
      [] c = "y2" -> {"y1"}
      [] c = "a" -> {"A"}
      [] c = "A" -> {"a"}
      [] c = "b" -> {"B"}
      [] c = "B" -> {"b"}
      [] OTHER -> {}

\* the strings that differ from str in one character, replaced by an equivalent
Respelled(str) ==
    {[str EXCEPT ![p] = v] : <<p, v>> \in
        {pv \in (1..Len(str)) \X Chars : pv[2] \in Equivalents(str[pv[1]])}}

\* C28: the score of a record stays the same when one character of the query
\* or of the record's name is replaced by its other letter form or its other
\* letter case
ClaimC28 ==
    rankOut.done =>
        \A i \in 1..Len(rankIn.data) :
            /\ \A q \in Respelled(rankIn.query) :
                   SearchScore(q, SearchableText(rankIn.data[i], TRUE)) = RankScore(i)
            /\ \A name \in Respelled(rankIn.data[i].baseName) :
                   SearchScore(rankIn.query,
                               SearchableText([rankIn.data[i] EXCEPT !.baseName = name], TRUE))
                       = RankScore(i)

(***************************************************************************)
(* The search widget: claims                                               *)
(***************************************************************************)
SearchStart == SearchInit /\ CacheIdle /\ ReconIdle /\ RateIdle /\ CmpIdle /\ FetchIdle /\ ListIdle /\ LookupIdle /\ RankIdle /\ RatingIdle /\ TreeIdle /\ MenuIdle

SpecSearch == SearchStart /\ [][SearchNext]_vars

\* the search the pending timer is about to run
PendingQuery == searchManager.searchTimeout.query

PendingKey == CacheKey(PendingQuery, searchManager.currentCategory, HasProductData)

\* C23: a search whose (query, category, hasProductData) was searched
\* before, with no cache clear since, shows exactly the ordered list shown
\* then, and it is a cache hit: the hit counter goes up by one and the miss
\* counter stays
ClaimC23 ==
    [][SearchTimerFires /\ searchLog.shown[PendingKey].seen
       => /\ searchManager'.searchResults = searchLog.shown[PendingKey].list
          /\ searchCache'.hitCount = searchCache.hitCount + 1
          /\ searchCache'.missCount = searchCache.missCount]_vars

\* C26: the list a search shows is the ranked records, filtered by the
\* category selected now (with the max price and the favorites of now),
\* in the sort order selected now
ClaimC26 ==
    [][SearchTimerFires
       => searchManager'.searchResults = Limit(FilteredSorted(PendingQuery))]_vars

\* the lists the search cache holds
CachedLists == {ListOf(searchCache.cache[i].data, vendorList) : i \in 1..Len(searchCache.cache)}

\* C27: no list in the search cache and no list handed to rendering is
\* longer than MAX_SEARCH_RESULTS, and a search that computes a longer list
\* stores and shows its first MAX_SEARCH_RESULTS records
TheoremC27 ==
    [][/\ \A list \in CachedLists' : Len(list) <= MAX_SEARCH_RESULTS
       /\ Len(searchManager'.searchResults) <= MAX_SEARCH_RESULTS
       /\ SearchTimerFires /\ ~MapHas(searchCache.cache, PendingKey)
             /\ Len(FilteredSorted(PendingQuery)) > MAX_SEARCH_RESULTS
          => LET first == SubSeq(FilteredSorted(PendingQuery), 1, MAX_SEARCH_RESULTS)
             IN /\ searchManager'.searchResults = first
                /\ \E i \in 1..Len(searchCache'.cache) :
                       /\ searchCache'.cache[i].key = PendingKey
                       /\ ListOf(searchCache'.cache[i].data, vendorList') = first]_vars

\* a search for "a" on a menu page, sorted by price, computed four records
\* and showed two
WitnessC27 ==
    /\ searchLog.last.ran /\ ~searchLog.last.hit
    /\ searchLog.last.key = CacheKey(<<"a">>, "all", TRUE)
    /\ searchManager.currentSort = "price-asc"
    /\ ~searchManager.searchTimeout.set
    /\ searchLog.last.total > MAX_SEARCH_RESULTS
    /\ searchManager.searchResults = <<2, 3>>
    /\ CachedLists = {<<2, 3>>}

(***************************************************************************)
(* Claims about the sweep and the statistics of the caches                 *)
(***************************************************************************)
\* C31: cleanup removes every entry whose expiry time has been reached,
\* requested again or not, keeps every live entry as it is and in its
\* order, returns the number of entries it removed, and leaves the hit and
\* the miss counter alone
TheoremC31 ==
    [][(impl = "bg" /\ last'.op = "cleanup") =>
        /\ \A i \in 1..Len(inst.cache) :
              IF now >= inst.cache[i].expiry
              THEN ~MapHas(inst'.cache, inst.cache[i].key)
              ELSE \E j \in 1..Len(inst'.cache) : inst'.cache[j] = inst.cache[i]
        /\ inst'.cache = SeqRestrict(inst.cache, {inst'.cache[j] : j \in 1..Len(inst'.cache)})
        /\ last'.ret = Len(inst.cache) - Len(inst'.cache)
        /\ inst'.hitCount = inst.hitCount
        /\ inst'.missCount = inst.missCount
      ]_vars

\* a sweep at the expiry time of a key that was set and never requested
\* removed that key and kept a live one
WitnessC31 ==
    /\ impl = "bg"
    /\ last.op = "cleanup"
    /\ last.ret = 1
    /\ Len(inst.cache) = 1
    /\ \E k \in Keys : /\ lastSet[k].set
                        /\ ~MapHas(inst.cache, k)
                        /\ now = lastSet[k].time + inst.ttl
    /\ inst.hitCount = 0 /\ inst.missCount = 0

\* the statistics of the cache instance
StatsOf(c) == IF impl = "bg" THEN BgGetStats(c) ELSE CsGetStats(c)

\* C32: the statistics count as hits the gets since the last clear that
\* returned a value and as misses those that returned none; hitRate is
\* hits / (hits + misses) when there was a get since the last clear, and
\* no numeric rate when there was none
ClaimC32 ==
    [][LET before == StatsOf(inst)
           after == StatsOf(inst')
       IN /\ last'.op = "get" /\ last'.ret # Null
                => after.hits = before.hits + 1 /\ after.misses = before.misses
          /\ last'.op = "get" /\ last'.ret = Null
                => after.hits = before.hits /\ after.misses = before.misses + 1
          /\ last'.op = "clear" => after.hits = 0 /\ after.misses = 0
          /\ last'.op \notin {"get", "clear"}
                => after.hits = before.hits /\ after.misses = before.misses
          /\ after.hitRate =
                 IF after.hits + after.misses > 0
                 THEN RateText(toFixed1(after.hits, after.hits + after.misses))
                 ELSE NoRate
      ]_vars

\* the TTL an instance was constructed with; the class of the content
\* script takes none, and the longest TTL of the model stands for whatever
\* TTL such an instance is meant to have
TtlOf(c) == IF impl = "bg" THEN c.ttl ELSE MaxTTL

\* C33: no cache instance, of the background script or of the content
\* script, returns an entry once its TTL has elapsed since the entry was set
ClaimC33 ==
    (/\ last.op = "get"
     /\ lastSet[last.key].set
     /\ now >= lastSet[last.key].time + TtlOf(inst))
    => last.ret = Null

(***************************************************************************)
(* Claims about passes, observers and searches across an epoch reset       *)
(***************************************************************************)
\* C36: a slice of a pass that was started before the last epoch reset
\* applies no decoration and marks no element as processed
ClaimC36 ==
    [][(RunIdleCallback /\ Head(idleQueue).epoch # hist.epoch)
       => /\ dom' = dom
          /\ state'.processedElements = state.processedElements
          /\ state'.processedVendors = state.processedVendors]_vars

\* C38: at most one mutation observer of the content script is active,
\* after any number of navigations
ClaimC38 == state.activeObservers <= 1

\* C40: running a search leaves state.vendorList and state.comparisonData
\* as they are, in content and in order, and the list the search cache
\* holds is not the array of the data set itself
ClaimC40 ==
    [][SearchTimerFires
       => /\ vendorList' = vendorList
          /\ comparisonData' = comparisonData
          /\ \A i \in 1..Len(searchCache'.cache) :
                 ~searchCache'.cache[i].data.isVendorArray]_vars

(***************************************************************************)
(* Claims about the rating of a candidate                                  *)
(***************************************************************************)
RatingStart == RatingInit /\ CacheIdle /\ ReconIdle /\ RateIdle /\ CmpIdle /\ FetchIdle /\ ListIdle /\ LookupIdle /\ RankIdle /\ SearchIdle /\ TreeIdle /\ MenuIdle

SpecRating == RatingStart /\ [][RatingNext]_vars

\* C34: the rating used for a candidate is the rating that extraction from
\* the content of that candidate yields, computed or served from the cache
ClaimC34 ==
    ratingUse.count > 0 => ratingUse.rating = RatingInContent(cards[ratingUse.card])

(***************************************************************************)
(* Claims about the container of a link                                    *)
(***************************************************************************)
TreeStart == TreeInit /\ CacheIdle /\ ReconIdle /\ RateIdle /\ CmpIdle /\ FetchIdle /\ ListIdle /\ LookupIdle /\ RankIdle /\ SearchIdle /\ RatingIdle /\ MenuIdle

SpecTree == TreeStart /\ [][TreeNext]_vars

\* the candidates of a chain that are elements other than the body and the
\* root, by their place in the fallback order
AcceptablePlaces(chain) ==
    {i \in 1..5 : Acceptable(chain, ContainerCandidates(chain)[i])}

\* C35: the container returned is the first element in the fallback order
\* (card, article, list item, vendor wrapper, parent) that is neither the
\* body nor the root, it is never the body or the root, and a second call
\* for the link returns the container of the first
ClaimC35 ==
    \A n \in 1..Len(bestContainer) :
        /\ \E i \in AcceptablePlaces(ancestors) :
              /\ bestContainer[n] = ContainerCandidates(ancestors)[i]
              /\ \A j \in AcceptablePlaces(ancestors) : i <= j
        /\ bestContainer[n] # DocumentBody(ancestors)
        /\ bestContainer[n] # DocumentElement(ancestors)
        /\ bestContainer[n] = bestContainer[1]

(***************************************************************************)
(* Claims about menu pages across an epoch reset                           *)
(***************************************************************************)
MenuStart == MenuInit /\ CacheIdle /\ ReconIdle /\ RateIdle /\ CmpIdle /\ FetchIdle /\ ListIdle /\ LookupIdle /\ RankIdle /\ SearchIdle /\ RatingIdle /\ TreeIdle

SpecMenu == MenuStart /\ [][MenuNext]_vars

\* every timer, reply and idle callback of the content script runs in the
\* end; the host page navigates and adds cards as it likes
SpecMenuFair ==
    /\ MenuStart
    /\ [][MenuNext]_vars
    /\ WF_vars(MenuNavigationCheck)
    /\ WF_vars(MenuReinitialize)
    /\ WF_vars(InitSnappFoodMenu)
    /\ WF_vars(\E req \in menuRequests, success \in BOOLEAN : FetchPricesReply(req, success))
    /\ WF_vars(ProcessProductsFires)
    /\ WF_vars(ProductChunkRuns)

\* C37: after a reset the data of the page is written only by the reply to
\* a request of the current epoch: data in the state answers a request
\* sent after the last reset
ClaimC37 ==
    menuState.comparisonData.has => menuState.comparisonData.epoch = menuHist.epoch

\* a card that is in the document while comparison data with a base
\* product of its title has arrived
AwaitsAnnotation(card) ==
    /\ card \in menuPage.cards
    /\ MatchedProduct(menuState.comparisonData, card)

\* C39: once the data has arrived, every card that stays in the document
\* and whose title is a base product name of the data receives its
\* comparison annotation in the end
ClaimC39 ==
    \A card \in MenuCards :
        AwaitsAnnotation(card) ~> (cardMarks[card] = "compared" \/ ~AwaitsAnnotation(card))

====
